---- MODULE Spec2Model ----
(***************************************************************************)
(* Presenter identity resolution of the shipping-forecast recorder:        *)
(* candidate extraction and text matching (kiwi_recorder.py), the resolver *)
(* detect_presenter, the archive batch driver (analyze_archive.py) and the *)
(* training-set curator (build_voiceprint_database.py).                    *)
(*                                                                         *)
(* Text is modelled as TLA+ strings, read character by character.          *)
(* A confidence is an exact fraction <<numerator, denominator>>.           *)
(***************************************************************************)
EXTENDS Integers, Sequences, FiniteSets, TLC

(***************************************************************************)
(* Characters and the str methods the code uses                            *)
(***************************************************************************)
\* Python's None where a string is expected, and where a dict is expected
None == "<None>"
NoDict == [none |-> TRUE]

UpperLetters == "ABCDEFGHIJKLMNOPQRSTUVWXYZ"
LowerLetters == "abcdefghijklmnopqrstuvwxyz"
Digits == "0123456789"

Ch(s, i) == SubSeq(s, i, i)

Chars(s) == {Ch(s, i) : i \in 1..Len(s)}

Letters == Chars(UpperLetters) \cup Chars(LowerLetters)

WordChars == Letters \cup Chars(Digits) \cup {"_"}

\* str.lower() on one character
LowerOf == [c \in Chars(UpperLetters) |->
              Ch(LowerLetters, CHOOSE i \in 1..Len(UpperLetters) : Ch(UpperLetters, i) = c)]

IsLetter(c) == c \in Letters

IsSpace(c) == c \in {" ", "\t", "\n"}

\* a regex word character (\w), which decides \b
IsWordCh(c) == c \in WordChars

LowerCh(c) == IF c \in DOMAIN LowerOf THEN LowerOf[c] ELSE c

RECURSIVE Lower(_)
Lower(s) == IF Len(s) = 0 THEN "" ELSE LowerCh(Ch(s, 1)) \o Lower(Tail(s))

RECURSIVE LStrip(_)
LStrip(s) == IF Len(s) > 0 /\ IsSpace(Ch(s, 1)) THEN LStrip(Tail(s)) ELSE s

RECURSIVE RStrip(_)
RStrip(s) ==
  IF Len(s) > 0 /\ IsSpace(Ch(s, Len(s)))
  THEN RStrip(SubSeq(s, 1, Len(s) - 1))
  ELSE s

Strip(s) == RStrip(LStrip(s))

\* end (inclusive) of the longest run of letters that starts at i; i - 1
\* when the run is empty
RECURSIVE LetterRunEnd(_, _)
LetterRunEnd(s, i) ==
  IF i <= Len(s) /\ IsLetter(Ch(s, i)) THEN LetterRunEnd(s, i + 1) ELSE i - 1

RECURSIVE SpaceRunEnd(_, _)
SpaceRunEnd(s, i) ==
  IF i <= Len(s) /\ IsSpace(Ch(s, i)) THEN SpaceRunEnd(s, i + 1) ELSE i - 1

RECURSIVE WordEnd(_, _)
WordEnd(s, i) ==
  IF i <= Len(s) /\ ~IsSpace(Ch(s, i)) THEN WordEnd(s, i + 1) ELSE i - 1

\* str.split(): the words between runs of whitespace
RECURSIVE Split(_)
Split(s) ==
  LET t == LStrip(s)
      e == WordEnd(t, 1)
  IN IF Len(t) = 0 THEN <<>>
     ELSE <<SubSeq(t, 1, e)>> \o Split(SubSeq(t, e + 1, Len(t)))

(***************************************************************************)
(* The sign-off patterns (regular expressions, IGNORECASE) and findall.    *)
(* A position is the index of a character; "next" is the position after a  *)
(* match, 0 when there is no match.  A value used more than once is passed *)
(* to a helper as an argument.                                             *)
(***************************************************************************)
IsWordAt(s, i) == i >= 1 /\ i <= Len(s) /\ IsWordCh(Ch(s, i))

\* \b before position i: exactly one of the two neighbours is a word character
WordBoundary(s, i) == IsWordAt(s, i - 1) # IsWordAt(s, i)

\* the first k characters of a literal equal, without regard to letter case,
\* the characters from position i
RECURSIVE SameLetters(_, _, _, _)
SameLetters(s, i, lit, k) ==
  \/ k = 0
  \/ /\ LowerCh(Ch(s, i + k - 1)) = LowerCh(Ch(lit, k))
     /\ SameLetters(s, i, lit, k - 1)

\* a literal matched without regard to letter case at position i
MatchLit(s, i, lit) ==
  IF i + Len(lit) - 1 <= Len(s) /\ SameLetters(s, i, lit, Len(lit))
  THEN i + Len(lit)
  ELSE 0

DownSeq(hi, lo) == [k \in 1..(hi - lo + 1) |-> hi - k + 1]

FirstNext(n, rest) == IF n > 0 THEN n ELSE rest

FirstFound(m, rest) == IF m # <<>> THEN m ELSE rest

\* (?:a|b|...) at position i: the next positions of the alternatives that
\* match, in the order they are tried
RECURSIVE AltNext(_, _, _)
AltNext(s, i, alts) ==
  IF alts = <<>> THEN <<>>
  ELSE SelectSeq(<<MatchLit(s, i, Head(alts))>>, LAMBDA n : n > 0)
         \o AltNext(s, i, Tail(alts))

\* the second word of the name, (?:\s+[A-Z][a-z]+)?, after spaces ending at
\* spe: its next positions, longest first
SecondWordEnds(spe, w2e) == IF w2e >= spe + 2 THEN DownSeq(w2e + 1, spe + 3) ELSE <<>>

SecondWord(s, w1e, spe) ==
  IF spe >= w1e + 1 THEN SecondWordEnds(spe, LetterRunEnd(s, spe + 1)) ELSE <<>>

FirstWord(s, p, w1e) ==
  IF w1e >= p + 1
  THEN SecondWord(s, w1e, SpaceRunEnd(s, w1e + 1)) \o DownSeq(w1e + 1, p + 2)
  ELSE <<>>

\* [A-Z][a-z]+(?:\s+[A-Z][a-z]+)? started at p: the next positions of each way
\* of matching it, in the order the backtracking matcher tries them (greedy
\* first: both words at full length, the second word shortened, the first word
\* alone, the first word shortened)
NameEnds(s, p) == FirstWord(s, p, LetterRunEnd(s, p))

\* \s+(?:BBC|Radio) at position i
StationAfter(i, spe, ns) == IF spe >= i /\ ns # <<>> THEN Head(ns) ELSE 0

StationFrom(s, i, spe) == StationAfter(i, spe, AltNext(s, spe + 1, <<"BBC", "Radio">>))

StationNext(s, i) == StationFrom(s, i, SpaceRunEnd(s, i))

RECURSIVE FirstStation(_, _)
FirstStation(s, ns) ==
  IF ns = <<>> THEN 0
  ELSE FirstNext(StationNext(s, Head(ns)), FirstStation(s, Tail(ns)))

\* what follows the name in a pattern, after spaces ending at spe
SuffixFrom(kind, s, e, spe) ==
  CASE kind = "none" -> e
    [] kind = "station" ->   \* \s+(?:for|on|from)\s+(?:BBC|Radio)
         IF spe >= e THEN FirstStation(s, AltNext(s, spe + 1, <<"for", "on", "from">>)) ELSE 0
    [] kind = "punct" ->     \* \s*[.,]
         IF spe + 1 <= Len(s) /\ Ch(s, spe + 1) \in {".", ","} THEN spe + 2 ELSE 0

SuffixNext(kind, s, e) == SuffixFrom(kind, s, e, SpaceRunEnd(s, e))

PRESENTER_NAME_PATTERNS ==
  << [prefix |-> <<"This is", "This has been">>, suffix |-> "none"],
     [prefix |-> <<"I'm", "I am">>, suffix |-> "none"],
     [prefix |-> <<>>, suffix |-> "station"],
     [prefix |-> <<"with">>, suffix |-> "punct"] >>

PRESENTER_FALSE_POSITIVES ==
  {"the", "shipping", "forecast", "weather", "radio", "bbc",
   "good", "night", "morning", "evening", "and", "now", "that"}

\* a match: <<first position of the name, next position of the name, next
\* position of the whole match>>, <<>> when there is none
MatchIf(p, e, next) == IF next > 0 THEN <<p, e, next>> ELSE <<>>

\* the name started at p, then the pattern's suffix: the first way of matching
\* the name that the suffix accepts
RECURSIVE NameFrom(_, _, _, _)
NameFrom(pat, s, p, ends) ==
  IF ends = <<>> THEN <<>>
  ELSE FirstFound(MatchIf(p, Head(ends), SuffixNext(pat.suffix, s, Head(ends))),
                  NameFrom(pat, s, p, Tail(ends)))

NameAfterSpaces(pat, s, n, spe) ==
  IF spe >= n THEN NameFrom(pat, s, spe + 1, NameEnds(s, spe + 1)) ELSE <<>>

\* the prefix alternatives, each followed by \s+ and the name
RECURSIVE PrefixedFrom(_, _, _)
PrefixedFrom(pat, s, ns) ==
  IF ns = <<>> THEN <<>>
  ELSE FirstFound(NameAfterSpaces(pat, s, Head(ns), SpaceRunEnd(s, Head(ns))),
                  PrefixedFrom(pat, s, Tail(ns)))

\* one pattern tried at position i
PatternAt(pat, s, i) ==
  IF ~WordBoundary(s, i) THEN <<>>
  ELSE IF pat.prefix = <<>> THEN NameFrom(pat, s, i, NameEnds(s, i))
  ELSE PrefixedFrom(pat, s, AltNext(s, i, pat.prefix))

\* pattern.findall(transcript): the captured names of the non-overlapping
\* matches, left to right
RECURSIVE FindAll(_, _, _)
FindFrom(pat, s, pos, m) ==
  IF m # <<>>
  THEN <<SubSeq(s, m[1], m[2] - 1)>> \o FindAll(pat, s, m[3])
  ELSE FindAll(pat, s, pos + 1)

FindAll(pat, s, pos) ==
  IF pos > Len(s) THEN <<>> ELSE FindFrom(pat, s, pos, PatternAt(pat, s, pos))

InFalsePositives(words) == \A k \in 1..Len(words) : words[k] \in PRESENTER_FALSE_POSITIVES

\* a variant that rejects a match as soon as one of its words is a false positive
AnyFalsePositive(match) ==
  \E k \in 1..Len(Split(Lower(match))) :
    Split(Lower(match))[k] \in PRESENTER_FALSE_POSITIVES

AllFalsePositives(match) == InFalsePositives(Split(Lower(match)))

KeepNames(matches) == SelectSeq(matches, LAMBDA match : ~AllFalsePositives(match))

RECURSIVE CandidatesFrom(_, _)
CandidatesFrom(patterns, transcript) ==
  IF patterns = <<>> THEN <<>>
  ELSE KeepNames(FindAll(Head(patterns), transcript, 1))
         \o CandidatesFrom(Tail(patterns), transcript)

extract_name_candidates(transcript) ==
  CandidatesFrom(PRESENTER_NAME_PATTERNS, transcript)

(***************************************************************************)
(* difflib.SequenceMatcher(None, a, b).ratio() for strings shorter than    *)
(* the 200 characters at which autojunk starts                             *)
(***************************************************************************)
\* length of the common run of a from i and b from j inside a[..ahi], b[..bhi]
RECURSIVE RunLen(_, _, _, _, _, _)
RunLen(a, b, i, j, ahi, bhi) ==
  IF i <= ahi /\ j <= bhi /\ Ch(a, i) = Ch(b, j)
  THEN 1 + RunLen(a, b, i + 1, j + 1, ahi, bhi)
  ELSE 0

RunLens(a, b, alo, ahi, blo, bhi) ==
  [p \in (alo..ahi) \X (blo..bhi) |-> RunLen(a, b, p[1], p[2], ahi, bhi)]

Longest(len) == CHOOSE k \in {len[p] : p \in DOMAIN len} : \A p \in DOMAIN len : len[p] <= k

EarliestInA(len, best) ==
  CHOOSE i \in {p[1] : p \in DOMAIN len} :
    /\ \E p \in DOMAIN len : p[1] = i /\ len[p] = best
    /\ \A p \in DOMAIN len : len[p] = best => p[1] >= i

EarliestInB(len, best, bi) ==
  CHOOSE j \in {p[2] : p \in DOMAIN len} :
    /\ len[<<bi, j>>] = best
    /\ \A p \in DOMAIN len : (p[1] = bi /\ len[p] = best) => p[2] >= j

BlockAt(len, best, bi) == <<bi, EarliestInB(len, best, bi), best>>

BlockOf(len, best) == BlockAt(len, best, EarliestInA(len, best))

LongestBlock(len) == BlockOf(len, Longest(len))

\* find_longest_match: <<i, j, k>>, the longest block a[i..i+k-1] = b[j..j+k-1]
\* inside a[alo..ahi], b[blo..bhi]; of the longest, the one starting earliest
\* in a, and of those the one starting earliest in b
find_longest_match(a, b, alo, ahi, blo, bhi) == LongestBlock(RunLens(a, b, alo, ahi, blo, bhi))

\* the total size of get_matching_blocks: the longest block, then the same to
\* its left and to its right
RECURSIVE MatchingSize(_, _, _, _, _, _)
SizeAround(a, b, alo, ahi, blo, bhi, m) ==
  IF m[3] = 0 THEN 0
  ELSE m[3] + MatchingSize(a, b, alo, m[1] - 1, blo, m[2] - 1)
            + MatchingSize(a, b, m[1] + m[3], ahi, m[2] + m[3], bhi)

MatchingSize(a, b, alo, ahi, blo, bhi) ==
  IF alo > ahi \/ blo > bhi THEN 0
  ELSE SizeAround(a, b, alo, ahi, blo, bhi, find_longest_match(a, b, alo, ahi, blo, bhi))

\* ratio() = 2.0 * matches / (len(a) + len(b)), 1.0 for two empty strings
ratio(a, b) ==
  IF Len(a) + Len(b) = 0 THEN <<1, 1>>
  ELSE <<2 * MatchingSize(a, b, 1, Len(a), 1, Len(b)), Len(a) + Len(b)>>

\* comparison of two fractions with positive denominators
Geq(p, q) == p[1] * q[2] >= q[1] * p[2]
Lt(p, q) == ~Geq(p, q)
SameValue(p, q) == p[1] * q[2] = q[1] * p[2]

(***************************************************************************)
(* Text matching against the presenter directory                           *)
(***************************************************************************)
One == <<1, 1>>
Zero == <<0, 1>>
\* fuzzy_match_presenter's default threshold, 0.7
DefaultThreshold == <<7, 10>>

OrElse(first, second) == IF first # NoDict THEN first ELSE second

Match(presenter, confidence, match_type) ==
  [name |-> presenter.name, confidence |-> confidence, match_type |-> match_type]

ExactMatch(name_lower, presenter, canonical) ==
  IF name_lower = canonical THEN Match(presenter, One, "exact") ELSE NoDict

VariationMatch(name_lower, presenter) ==
  IF \E k \in 1..Len(presenter.variations) : name_lower = Lower(presenter.variations[k])
  THEN Match(presenter, One, "variation")
  ELSE NoDict

FuzzyMatch(presenter, r, threshold, match_type) ==
  IF Geq(r, threshold) THEN Match(presenter, r, match_type) ELSE NoDict

\* the loop over the variations: the first whose ratio reaches the threshold
RECURSIVE FuzzyVariationMatch(_, _, _, _)
FuzzyVariationMatch(name_lower, presenter, vs, threshold) ==
  IF vs = <<>> THEN NoDict
  ELSE OrElse(FuzzyMatch(presenter, ratio(name_lower, Lower(Head(vs))), threshold,
                         "fuzzy_variation"),
              FuzzyVariationMatch(name_lower, presenter, Tail(vs), threshold))

\* a defect the claims are checked against: the directory name compared
\* without lower()
PresenterTestsCaseSensitive(name_lower, presenter, canonical, threshold) ==
  OrElse(ExactMatch(name_lower, presenter, presenter.name),
    OrElse(VariationMatch(name_lower, presenter),
      OrElse(FuzzyMatch(presenter, ratio(name_lower, presenter.name), threshold, "fuzzy"),
             FuzzyVariationMatch(name_lower, presenter, presenter.variations, threshold))))

\* the four tests fuzzy_match_presenter applies to one presenter, in order;
\* canonical is presenter["name"].lower()
PresenterTests(name_lower, presenter, canonical, threshold) ==
  OrElse(ExactMatch(name_lower, presenter, canonical),
    OrElse(VariationMatch(name_lower, presenter),
      OrElse(FuzzyMatch(presenter, ratio(name_lower, canonical), threshold, "fuzzy"),
             FuzzyVariationMatch(name_lower, presenter, presenter.variations, threshold))))

MatchPresenter(name_lower, presenter, threshold) ==
  PresenterTests(name_lower, presenter, Lower(presenter.name), threshold)

\* a variant of the loop over the directory: the presenter with the highest
\* confidence, the earlier one on a tie
RECURSIVE MatchBest(_, _, _)
MatchBest(name_lower, known_presenters, threshold) ==
  IF known_presenters = <<>> THEN NoDict
  ELSE LET first == MatchPresenter(name_lower, Head(known_presenters), threshold)
           later == MatchBest(name_lower, Tail(known_presenters), threshold)
       IN IF first = NoDict THEN later
          ELSE IF later = NoDict THEN first
          ELSE IF Geq(first.confidence, later.confidence) THEN first ELSE later

\* the loop over the directory: the first presenter that passes a test
RECURSIVE MatchInOrder(_, _, _)
MatchInOrder(name_lower, known_presenters, threshold) ==
  IF known_presenters = <<>> THEN NoDict
  ELSE OrElse(MatchPresenter(name_lower, Head(known_presenters), threshold),
              MatchInOrder(name_lower, Tail(known_presenters), threshold))

fuzzy_match_presenter(name, known_presenters, threshold) ==
  MatchInOrder(Strip(Lower(name)), known_presenters, threshold)

NoMatchResult ==
  [presenter |-> None, raw_match |-> None, confidence |-> Zero, match_type |-> "no_match"]

\* a defect the claims are checked against: the last candidate reported as the
\* unknown raw_match
UnknownResultLast(candidates) ==
  [presenter |-> None, raw_match |-> candidates[Len(candidates)], confidence |-> Zero,
   match_type |-> "unknown"]

UnknownResult(candidates) ==
  [presenter |-> None, raw_match |-> candidates[1], confidence |-> Zero,
   match_type |-> "unknown"]

\* a variant that reports the candidate as heard for the presenter
MatchedResultAsHeard(candidate, match) ==
  IF match = NoDict THEN NoDict
  ELSE [presenter |-> candidate, raw_match |-> candidate,
        confidence |-> match.confidence, match_type |-> match.match_type]

MatchedResult(candidate, match) ==
  IF match = NoDict THEN NoDict
  ELSE [presenter |-> match.name, raw_match |-> candidate,
        confidence |-> match.confidence, match_type |-> match.match_type]

\* the loop over the candidates: the first candidate that matches a presenter
RECURSIVE FirstCandidateMatch(_, _)
FirstCandidateMatch(candidates, known_presenters) ==
  IF candidates = <<>> THEN NoDict
  ELSE OrElse(MatchedResult(Head(candidates),
                fuzzy_match_presenter(Head(candidates), known_presenters, DefaultThreshold)),
              FirstCandidateMatch(Tail(candidates), known_presenters))

ParseCandidates(candidates, known_presenters) ==
  IF candidates = <<>> THEN NoMatchResult
  ELSE OrElse(FirstCandidateMatch(candidates, known_presenters), UnknownResult(candidates))

parse_presenter_from_transcript(transcript, known_presenters) ==
  ParseCandidates(extract_name_candidates(transcript), known_presenters)

(***************************************************************************)
(* Inputs: transcripts made of sign-off sentences, presenter directories   *)
(***************************************************************************)
MaxSentences == 2

Sentences ==
  << "This is Zeb Soanes. ",
     "this is zeb. ",
     "I'm Zeb Soans, ",
     "This is Alana Smith. ",
     "This is the forecast. ",
     "Corey for BBC Radio. ",
     "with Bob Jones. " >>

RECURSIVE Concat(_)
Concat(ss) == IF ss = <<>> THEN "" ELSE Head(ss) \o Concat(Tail(ss))

\* the transcripts of at most n sentences
TranscriptsUpTo(n) ==
  { Concat([k \in 1..Len(ix) |-> Sentences[ix[k]]]) :
      ix \in UNION { [1..m -> 1..Len(Sentences)] : m \in 0..n } }

Transcripts == TranscriptsUpTo(MaxSentences)

Presenter(name, variations) == [name |-> name, variations |-> variations]

Directories ==
  { <<>>,
    << Presenter("Corrie Corfield", <<"Corrie", "Cory">>), Presenter("Zeb Soanes", <<"Zeb">>) >>,
    << Presenter("Alan Smith", <<>>), Presenter("Alana Smith", <<"Alana">>) >> }

(***************************************************************************)
(* detect_presenter: results, exceptions, stages                           *)
(***************************************************************************)
\* result as initialised on entry
InitialResult ==
  [presenter |-> None, raw_match |-> None, confidence |-> Zero,
   match_type |-> "error", transcript |-> None]

\* what can go wrong in a step, and the exception Python raises for it
Raises ==
  [timeout      |-> "TimeoutExpired",
   nonzero_exit |-> "CalledProcessError",
   not_json     |-> "JSONDecodeError",
   not_object   |-> "AttributeError",
   bad_duration |-> "ValueError",
   os_error     |-> "OSError"]

\* the classes an exception is an instance of
Ancestors ==
  [TimeoutExpired     |-> {"TimeoutExpired", "SubprocessError", "Exception"},
   CalledProcessError |-> {"CalledProcessError", "SubprocessError", "Exception"},
   JSONDecodeError    |-> {"JSONDecodeError", "ValueError", "Exception"},
   AttributeError     |-> {"AttributeError", "Exception"},
   ValueError         |-> {"ValueError", "Exception"},
   OSError            |-> {"OSError", "Exception"}]

Propagates == "<propagates>"

\* a variant of the except clauses with the catch-all first
ExceptClausesCatchAllFirst ==
  << [class |-> "Exception",          match_type |-> "error"],
     [class |-> "TimeoutExpired",     match_type |-> "timeout"],
     [class |-> "CalledProcessError", match_type |-> "command_error"],
     [class |-> "JSONDecodeError",    match_type |-> "parse_error"] >>

\* the except clauses of detect_presenter, in order
ExceptClauses ==
  << [class |-> "TimeoutExpired",     match_type |-> "timeout"],
     [class |-> "CalledProcessError", match_type |-> "command_error"],
     [class |-> "JSONDecodeError",    match_type |-> "parse_error"],
     [class |-> "Exception",          match_type |-> "error"] >>

\* the match_type the first clause catching the exception records
RECURSIVE HandledAs(_, _)
HandledAs(exception, clauses) ==
  IF clauses = <<>> THEN Propagates
  ELSE IF Head(clauses).class \in Ancestors[exception]
       THEN Head(clauses).match_type
       ELSE HandledAs(exception, Tail(clauses))

\* result after the exception of an event went through the except clauses
AfterException(result, event) ==
  [result EXCEPT !.match_type = HandledAs(Raises[event], ExceptClauses)]

\* the presenters file on disk: absent, unreadable as JSON, or a directory
PresentersFile(exists, valid, presenters) ==
  [exists |-> exists, valid |-> valid, presenters |-> presenters]

load_presenters(file) ==
  IF file.exists /\ file.valid THEN file.presenters ELSE <<>>

\* stdout of the remote transcriber on exit status 0
Output(kind, text) == [kind |-> kind, text |-> text]

\* json.loads, the error check and the transcript: the result and what follows
\* ("continue", "return", or the event that raises)
ReadTranscription(result, output) ==
  CASE output.kind = "not_json" ->
         [result |-> result, then |-> "not_json"]
    [] output.kind = "error_object" ->
         [result |-> [result EXCEPT !.match_type = "transcription_error"],
          then |-> "return"]
    [] output.kind = "not_object" ->
         [result |-> result, then |-> "not_object"]
    [] OTHER ->
         [result |-> [result EXCEPT !.transcript = output.text],
          then |-> "continue"]

\* result.update(presenter_result)
Update(result, presenter_result) ==
  [result EXCEPT !.presenter = presenter_result.presenter,
                 !.raw_match = presenter_result.raw_match,
                 !.confidence = presenter_result.confidence,
                 !.match_type = presenter_result.match_type]

LowConfidence == <<85, 100>>

Truthy(s) == s # None /\ s # ""

\* a variant that sends every fuzzy match to validation, whatever its confidence
needs_validation_any_fuzzy(result) ==
  \/ result.match_type = "unknown"
  \/ result.match_type \in {"fuzzy", "fuzzy_variation"}

needs_validation(result) ==
  \/ result.match_type = "unknown"
  \/ /\ result.match_type \in {"fuzzy", "fuzzy_variation"}
     /\ Lt(result.confidence, LowConfidence)

Escalates(result) == needs_validation(result) /\ Truthy(result.raw_match)

\* the disambiguator's environment
LlmSetup(enabled, installed, api_key) ==
  [LLM_VALIDATE_PRESENTER |-> enabled, installed |-> installed, api_key |-> api_key]

\* a variant of the availability test that does not ask for the API key
AvailableWithoutKey(setup) == setup.LLM_VALIDATE_PRESENTER /\ setup.installed

Available(setup) ==
  setup.LLM_VALIDATE_PRESENTER /\ setup.installed /\ setup.api_key

\* the external call: not made, failed ("timeout", "api_error") or replied
Call(kind, text) == [kind |-> kind, text |-> text]
NotCalled == Call("none", None)

RECURSIVE KnownName(_, _)
KnownName(response, known_presenters) ==
  IF known_presenters = <<>> THEN None
  ELSE IF Lower(response) = Lower(Head(known_presenters).name)
       THEN Head(known_presenters).name
       ELSE KnownName(response, Tail(known_presenters))

\* a variant that takes any reply other than UNKNOWN as the name
VerdictUnverified(response, known_presenters) ==
  IF response = "UNKNOWN" \/ Lower(response) = "unknown" THEN None
  ELSE response

Verdict(response, known_presenters) ==
  IF response = "UNKNOWN" \/ Lower(response) = "unknown" THEN None
  ELSE KnownName(response, known_presenters)

\* a variant that takes a failed call for a confirmation of the first presenter
validate_presenter_with_llm_trusting(known_presenters, setup, call) ==
  IF ~Available(setup) THEN None
  ELSE IF call.kind # "reply"
       THEN IF known_presenters = <<>> THEN None ELSE Head(known_presenters).name
       ELSE Verdict(Strip(call.text), known_presenters)

\* the validated name or None; call is what the external service did
validate_presenter_with_llm(known_presenters, setup, call) ==
  IF ~Available(setup) THEN None
  ELSE IF call.kind # "reply" THEN None
       ELSE Verdict(Strip(call.text), known_presenters)

LlmConfidence == <<9, 10>>

Accept(result, validated_name) ==
  IF Truthy(validated_name)
  THEN [result EXCEPT !.presenter = validated_name,
                      !.match_type = "llm_validated",
                      !.confidence = LlmConfidence]
  ELSE result

(***************************************************************************)
(* detect_presenter from the transcriber's output to the return            *)
(***************************************************************************)
TextResult(result, directory) ==
  Update(result, parse_presenter_from_transcript(result.transcript, directory))

Escalated(result, directory, setup, call) ==
  IF Escalates(result)
  THEN Accept(result, validate_presenter_with_llm(directory, setup, call))
  ELSE result

Cleaned(result, cleanup) ==
  IF cleanup = "ok" THEN result ELSE AfterException(result, cleanup)

DetectAfterRead(read, directory, setup, call, cleanup) ==
  CASE read.then = "return" -> read.result
    [] read.then = "continue" ->
         Cleaned(Escalated(TextResult(read.result, directory), directory, setup, call),
                 cleanup)
    [] OTHER -> AfterException(read.result, read.then)

(***************************************************************************)
(* analyze_archive: the record of one recording                            *)
(***************************************************************************)
TrainingConfidence == <<8, 10>>

\* a variant that trusts any confident match
SuitableAnyType(presenter, confidence, match_type) ==
  /\ presenter # None
  /\ Geq(confidence, TrainingConfidence)

Suitable(presenter, confidence, match_type) ==
  /\ presenter # None
  /\ Geq(confidence, TrainingConfidence)
  /\ match_type \in {"exact", "variation", "llm_validated"}

\* the fields taken from the recording before the try block
BaseRecord(recording) ==
  [file |-> recording.path, timestamp |-> recording.timestamp]

\* the record completed from detect_presenter's result
Labelled(base, presenter_result) ==
  [file |-> base.file,
   timestamp |-> base.timestamp,
   presenter |-> presenter_result.presenter,
   raw_match |-> presenter_result.raw_match,
   confidence |-> presenter_result.confidence,
   match_type |-> presenter_result.match_type,
   transcript |-> presenter_result.transcript,
   suitable_for_training |-> Suitable(presenter_result.presenter,
                                      presenter_result.confidence,
                                      presenter_result.match_type)]

\* except subprocess.TimeoutExpired
TimeoutRecord(base) ==
  [file |-> base.file,
   timestamp |-> base.timestamp,
   presenter |-> None,
   match_type |-> "timeout",
   suitable_for_training |-> FALSE]

\* except Exception
ErrorRecord(base, event) ==
  [file |-> base.file,
   timestamp |-> base.timestamp,
   presenter |-> None,
   match_type |-> "error",
   error |-> event,
   suitable_for_training |-> FALSE]

\* the record the except clauses of analyze_single_recording leave
FailedRecord(base, event) ==
  IF Raises[event] = "TimeoutExpired" THEN TimeoutRecord(base)
  ELSE ErrorRecord(base, event)

\* a variant of the accumulator that keeps the latest record only
AppendedOverwriting(results, record) == <<record>>

\* results.append(result)
Appended(results, record) == Append(results, record)

(***************************************************************************)
(* build_voiceprint_database: filter_suitable_recordings                   *)
(***************************************************************************)
\* the characters of timestamps and names in code point order
CharOrder ==
  " -.0123456789:ABCDEFGHIJKLMNOPQRSTUVWXYZabcdefghijklmnopqrstuvwxyz"

Ord(c) == CHOOSE i \in 1..Len(CharOrder) : Ch(CharOrder, i) = c

\* a < b for two strings equal before position i
RECURSIVE LessFrom(_, _, _)
LessFrom(a, b, i) ==
  IF i > Len(b) THEN FALSE
  ELSE IF i > Len(a) THEN TRUE
  ELSE IF Ch(a, i) = Ch(b, i) THEN LessFrom(a, b, i + 1)
  ELSE Ord(Ch(a, i)) < Ord(Ch(b, i))

StrLess(a, b) == LessFrom(a, b, 1)

\* x.get("timestamp", "")
TimestampKey(x) == IF "timestamp" \in DOMAIN x THEN x.timestamp ELSE ""

\* a variant of the sort order: oldest first
SortsBeforeOldest(x, y) == StrLess(TimestampKey(x), TimestampKey(y))

\* x goes before y in a sort by timestamp with reverse=True
SortsBefore(x, y) == StrLess(TimestampKey(y), TimestampKey(x))

\* x put into a sorted list behind the entries it does not sort before
RECURSIVE Inserted(_, _)
Inserted(sorted, x) ==
  IF sorted = <<>> THEN <<x>>
  ELSE IF SortsBefore(x, Head(sorted)) THEN <<x>> \o sorted
       ELSE <<Head(sorted)>> \o Inserted(Tail(sorted), x)

\* list.sort(key=timestamp, reverse=True): stable
RECURSIVE SortedInto(_, _)
SortedInto(sorted, rest) ==
  IF rest = <<>> THEN sorted
  ELSE SortedInto(Inserted(sorted, Head(rest)), Tail(rest))

Sorted(recordings) == SortedInto(<<>>, recordings)

Min(a, b) == IF a < b THEN a ELSE b
Max(a, b) == IF a > b THEN a ELSE b

\* recordings[:n]
SliceTo(recordings, n) ==
  IF n >= 0 THEN SubSeq(recordings, 1, Min(n, Len(recordings)))
  ELSE SubSeq(recordings, 1, Max(Len(recordings) + n, 0))

IsSuitable(r) == r.suitable_for_training /\ Truthy(r.presenter)

SuitableOf(results, presenter) ==
  SelectSeq(results, LAMBDA r : IsSuitable(r) /\ r.presenter = presenter)

SuitablePresenters(results) ==
  {results[k].presenter : k \in {j \in 1..Len(results) : IsSuitable(results[j])}}

filter_suitable_recordings(labels_data, max_samples_per_presenter) ==
  [presenter \in SuitablePresenters(labels_data.results) |->
     SliceTo(Sorted(SuitableOf(labels_data.results, presenter)),
             max_samples_per_presenter)]

(***************************************************************************)
(* build_voiceprint_database: build_database and validate_database         *)
(***************************************************************************)
\* the first of a non-empty set of strings in sorted order
LeastName(names) ==
  CHOOSE a \in names : \A b \in names : a = b \/ StrLess(a, b)

\* sorted(names)
RECURSIVE SortedNames(_)
SortedNames(names) ==
  IF names = {} THEN <<>>
  ELSE <<LeastName(names)>> \o SortedNames(names \ {LeastName(names)})

\* what extract_embedding_on_rack returns when the extraction fails: falsy
NoEmbedding == <<>>

\* how the rack can answer the extraction of a file: the copy fails, the
\* command times out, exits non-zero, prints no JSON, prints an error
\* response, or prints a response with or without an embedding
Extracted(embedding) == [kind |-> "response", embedding |-> embedding]

Failed(kind) == [kind |-> kind, embedding |-> NoEmbedding]

FailureKinds ==
  {"copy_failed", "timeout", "exit_nonzero", "invalid_json", "error_response"}

\* a variant that hands a failed extraction on as an embedding of its own
extract_embedding_or_zero(rack, audio_path) ==
  IF rack[audio_path].kind \in FailureKinds THEN <<0, 0>>
  ELSE rack[audio_path].embedding

\* extract_embedding_on_rack(audio_path): None on every failure, otherwise
\* response.get("embedding")
extract_embedding_on_rack(rack, audio_path) ==
  IF rack[audio_path].kind \in FailureKinds THEN NoEmbedding
  ELSE rack[audio_path].embedding

\* the embeddings of the recordings whose extraction gave one, in order
RECURSIVE EmbeddingsOf(_, _)
EmbeddingsOf(rack, recordings) ==
  IF recordings = <<>> THEN <<>>
  ELSE LET embedding == extract_embedding_on_rack(rack, Head(recordings).file)
       IN (IF embedding # NoEmbedding THEN <<embedding>> ELSE <<>>)
            \o EmbeddingsOf(rack, Tail(recordings))

\* database[presenter] = embeddings: an item of the dict, in insertion order
Voiceprints(presenter, embeddings) ==
  [presenter |-> presenter, embeddings |-> embeddings]

RECURSIVE DatabaseFrom(_, _, _)
DatabaseFrom(rack, selected, presenters) ==
  IF presenters = <<>> THEN <<>>
  ELSE LET embeddings == EmbeddingsOf(rack, selected[Head(presenters)])
       IN (IF embeddings # <<>>
           THEN <<Voiceprints(Head(presenters), embeddings)>> ELSE <<>>)
            \o DatabaseFrom(rack, selected, Tail(presenters))

build_database(selected, rack) ==
  DatabaseFrom(rack, selected, SortedNames(DOMAIN selected))

\* np.dot(e1, e2)
RECURSIVE Dot(_, _)
Dot(e1, e2) ==
  IF e1 = <<>> \/ e2 = <<>> THEN 0
  ELSE Head(e1) * Head(e2) + Dot(Tail(e1), Tail(e2))

\* np.linalg.norm(e) squared
Norm2(e) == Dot(e, e)

\* the similarity dot / (sqrt(norms) + 1e-8), kept as its exact parts
cosine_similarity(e1, e2) ==
  [dot |-> Dot(e1, e2), norms |-> Norm2(e1) * Norm2(e2)]

\* a variant of the inner loop: every embedding also paired with itself
InnerStartAtSelf(i) == i

\* range(i + 1, len(embeddings)): where the inner loop starts
InnerStart(i) == i + 1

\* the similarities appended from loop position (i, j) on
RECURSIVE SimilaritiesFrom(_, _, _)
SimilaritiesFrom(embeddings, i, j) ==
  IF i > Len(embeddings) THEN <<>>
  ELSE IF j > Len(embeddings)
       THEN SimilaritiesFrom(embeddings, i + 1, InnerStart(i + 1))
       ELSE <<cosine_similarity(embeddings[i], embeddings[j])>>
              \o SimilaritiesFrom(embeddings, i, j + 1)

Similarities(embeddings) == SimilaritiesFrom(embeddings, 1, InnerStart(1))

\* the entry of a presenter: mean, std, min and max are numpy's of "of"
Summary(similarities) ==
  [of |-> similarities, count |-> Len(similarities)]

\* the items of the database that get a within-speaker entry
Measured(db) ==
  {k \in 1..Len(db) : /\ ~(Len(db[k].embeddings) < 2)
                      /\ Similarities(db[k].embeddings) # <<>>}

within_speaker_similarity(db) ==
  [presenter \in {db[k].presenter : k \in Measured(db)} |->
     LET k == CHOOSE k \in Measured(db) : db[k].presenter = presenter
     IN Summary(Similarities(db[k].embeddings))]

\* the pairs appended from loop position (i, j) on: first embeddings compared
RECURSIVE BetweenFrom(_, _, _)
BetweenFrom(db, i, j) ==
  IF i > Len(db) THEN <<>>
  ELSE IF j > Len(db) THEN BetweenFrom(db, i + 1, i + 2)
  ELSE (IF db[i].embeddings # <<>> /\ db[j].embeddings # <<>>
        THEN <<[pair |-> db[i].presenter \o " vs " \o db[j].presenter,
                similarity |-> cosine_similarity(db[i].embeddings[1],
                                                 db[j].embeddings[1])]>>
        ELSE <<>>)
         \o BetweenFrom(db, i, j + 1)

\* a variant of the pair loop that starts the inner loop at the presenter itself
between_speaker_similarity_from_self(db) == BetweenFrom(db, 1, 1)

between_speaker_similarity(db) == BetweenFrom(db, 1, 2)

RECURSIVE TotalEmbeddings(_)
TotalEmbeddings(db) ==
  IF db = <<>> THEN 0 ELSE Len(Head(db).embeddings) + TotalEmbeddings(Tail(db))

\* the statistics of the pairs: numpy's mean and std of the similarities
BetweenStats(between) ==
  [between_speaker_mean |-> [mean_of |-> [k \in 1..Len(between) |-> between[k].similarity]],
   between_speaker_std |-> [std_of |-> [k \in 1..Len(between) |-> between[k].similarity]]]

\* stats, with the two keys added when there is a pair
WithBetweenStats(stats) ==
  IF stats.between_speaker_similarity # <<>>
  THEN stats @@ BetweenStats(stats.between_speaker_similarity)
  ELSE stats

validate_database(db) ==
  WithBetweenStats(
    [presenters |-> Len(db),
     total_embeddings |-> TotalEmbeddings(db),
     within_speaker_similarity |-> within_speaker_similarity(db),
     between_speaker_similarity |-> between_speaker_similarity(db)])

(***************************************************************************)
(* speaker_recognition: cosine_similarity and compare_against_database,    *)
(* similarities as exact fractions                                         *)
(***************************************************************************)
RECURSIVE Gcd(_, _)
Gcd(a, b) == IF b = 0 THEN a ELSE Gcd(b, a % b)

\* a fraction in lowest terms
Reduced(p) ==
  IF p[1] = 0 THEN Zero
  ELSE LET g == Gcd(IF p[1] < 0 THEN 0 - p[1] ELSE p[1], p[2])
       IN <<p[1] \div g, p[2] \div g>>

Plus(p, q) == Reduced(<<p[1] * q[2] + q[1] * p[2], p[2] * q[2]>>)

\* np.linalg.norm(e), for the embeddings whose length is a whole number
RECURSIVE RootFrom(_, _)
RootFrom(n, r) == IF r * r >= n THEN r ELSE RootFrom(n, r + 1)

Norm(e) == RootFrom(Norm2(e), 0)

\* a variant that returns the cosine as computed
Unclamped(similarity) == similarity

\* max(0.0, min(1.0, similarity))
Clamp(similarity) ==
  IF Lt(similarity, Zero) THEN Zero
  ELSE IF Geq(similarity, One) THEN One
  ELSE similarity

\* speaker_recognition.cosine_similarity: the dot product of the two
\* normalised embeddings (a zero embedding normalises to zero), clamped; the
\* 1e-8 added to each norm is below what the results are rounded to
speaker_cosine_similarity(embedding1, embedding2) ==
  IF Norm(embedding1) * Norm(embedding2) = 0 THEN Zero
  ELSE Clamp(Reduced(<<Dot(embedding1, embedding2),
                       Norm(embedding1) * Norm(embedding2)>>))

\* [cosine_similarity(embedding, ref_emb) for ref_emb in reference_embeddings]
RECURSIVE ReferenceSimilarities(_, _)
ReferenceSimilarities(embedding, reference_embeddings) ==
  IF reference_embeddings = <<>> THEN <<>>
  ELSE <<speaker_cosine_similarity(embedding, Head(reference_embeddings))>>
         \o ReferenceSimilarities(embedding, Tail(reference_embeddings))

\* max(similarities)
RECURSIVE MaxOf(_)
MaxOf(similarities) ==
  IF Len(similarities) = 1 THEN Head(similarities)
  ELSE LET rest == MaxOf(Tail(similarities))
       IN IF Geq(Head(similarities), rest) THEN Head(similarities) ELSE rest

\* sum(similarities)
RECURSIVE SumOf(_)
SumOf(similarities) ==
  IF similarities = <<>> THEN Zero
  ELSE Plus(Head(similarities), SumOf(Tail(similarities)))

\* sum(similarities) / len(similarities)
MeanOf(similarities) ==
  Reduced(<<SumOf(similarities)[1], SumOf(similarities)[2] * Len(similarities)>>)

\* round(x, 4) of a similarity, which is never negative
Round4(x) == <<(2 * 10000 * x[1] + x[2]) \div (2 * x[2]), 10000>>

\* a variant that reports the first reference's similarity as the best
FirstReference(similarities) ==
  IF similarities # <<>> THEN Head(similarities) ELSE Zero

\* max(similarities) if similarities else 0.0
best_similarity(similarities) ==
  IF similarities # <<>> THEN MaxOf(similarities) ELSE Zero

avg_similarity(similarities) ==
  IF similarities # <<>> THEN MeanOf(similarities) ELSE Zero

\* the entry appended for one item of the database
MatchOf(name, similarities) ==
  [name |-> name,
   similarity |-> Round4(best_similarity(similarities)),
   avg_similarity |-> Round4(avg_similarity(similarities)),
   num_references |-> Len(similarities)]

RECURSIVE MatchesOf(_, _)
MatchesOf(embedding, db) ==
  IF db = <<>> THEN <<>>
  ELSE <<MatchOf(Head(db).presenter,
                 ReferenceSimilarities(embedding, Head(db).embeddings))>>
         \o MatchesOf(embedding, Tail(db))

\* matches.sort(key=similarity, reverse=True): stable, so that entries of the
\* same similarity keep the order they had
RECURSIVE InsertedByBest(_, _)
InsertedByBest(sorted, match) ==
  IF sorted = <<>> THEN <<match>>
  ELSE IF Geq(Head(sorted).similarity, match.similarity)
       THEN <<Head(sorted)>> \o InsertedByBest(Tail(sorted), match)
       ELSE <<match>> \o sorted

RECURSIVE SortedByBest(_, _)
SortedByBest(sorted, rest) ==
  IF rest = <<>> THEN sorted
  ELSE SortedByBest(InsertedByBest(sorted, Head(rest)), Tail(rest))

\* match["rank"] = i
Ranked(sorted) ==
  [i \in 1..Len(sorted) |->
     [name |-> sorted[i].name,
      similarity |-> sorted[i].similarity,
      avg_similarity |-> sorted[i].avg_similarity,
      num_references |-> sorted[i].num_references,
      rank |-> i]]

compare_against_database(embedding, db) ==
  Ranked(SortedByBest(<<>>, MatchesOf(embedding, db)))

(***************************************************************************)
(* The sidecar file: update_sidecar_with_presenter, and the archive's      *)
(* voiceprint pass of identify_archive_presenters                          *)
(***************************************************************************)
\* "=" * 70
Rule ==
  "======================================================================"

forecast_marker == Rule \o "\nSHIPPING FORECAST"

\* text[i:].startswith(sub), positions from 1
StartsAt(text, sub, i) ==
  /\ i + Len(sub) - 1 <= Len(text)
  /\ SubSeq(text, i, i + Len(sub) - 1) = sub

\* sub in text
Contains(text, sub) == \E i \in 1..Len(text) : StartsAt(text, sub, i)

\* text.replace(old, new) from position i on: left to right, no overlaps
RECURSIVE ReplacedFrom(_, _, _, _)
ReplacedFrom(text, old, new, i) ==
  LET found == {j \in i..Len(text) : StartsAt(text, old, j)}
  IN IF found = {} THEN SubSeq(text, i, Len(text))
     ELSE LET j == CHOOSE j \in found : \A k \in found : j <= k
          IN SubSeq(text, i, j - 1) \o new
               \o ReplacedFrom(text, old, new, j + Len(old))

\* write_sidecar: the body, with the forecast section if there is a forecast
write_sidecar(forecast_html) ==
  "Station recording summary\n"
    \o "File : ShippingFCST-251203_AM_004800UTC--kiwi.wav\n"
    \o "Host : kiwi.example.org:8073\n"
    \o "\n"
    \o "CREDIT / ORIGIN:\n"
    \o "  Received via KiwiSDR network (https://kiwisdr.com)\n"
    \o (IF forecast_html # None /\ forecast_html # ""
        THEN "\n\n" \o Rule \o "\nSHIPPING FORECAST (Met Office)\n" \o Rule
               \o "\n\n" \o forecast_html
        ELSE "")

\* f"{x:.2f}" of a fraction below 10: the nearest hundredth
Format2f(x) ==
  LET h == (200 * x[1] + x[2]) \div (2 * x[2])
  IN Ch(Digits, (h \div 100) + 1) \o "."
       \o Ch(Digits, ((h \div 10) % 10) + 1) \o Ch(Digits, (h % 10) + 1)

\* the lines update_sidecar_with_presenter writes for a result
PresenterLines(presenter_result) ==
  IF Truthy(presenter_result.presenter)
  THEN "Presenter: " \o presenter_result.presenter \o "\n"
         \o "Confidence: " \o Format2f(presenter_result.confidence) \o "\n"
         \o "Match type: " \o presenter_result.match_type \o "\n"
  ELSE IF Truthy(presenter_result.raw_match)
  THEN "Unknown presenter: " \o presenter_result.raw_match \o "\n"
         \o "(Not in known presenters database)\n"
  ELSE "Presenter: Not detected\n"
         \o "Status: " \o presenter_result.match_type \o "\n"

presenter_section(lines) ==
  "\n" \o Rule \o "\nPRESENTER\n" \o Rule \o "\n\n" \o lines

\* the section put before every forecast marker, or at the end
WithSection(content, section) ==
  IF Contains(content, forecast_marker)
  THEN ReplacedFrom(content, forecast_marker,
                    section \o "\n" \o forecast_marker, 1)
  ELSE content \o section

update_sidecar_with_presenter(content, presenter_result) ==
  WithSection(content, presenter_section(PresenterLines(presenter_result)))

\* an item of the comparison's ranked matches
RankedMatch(name, similarity) == [name |-> name, similarity |-> similarity]

\* match_result.get('matches') is truthy
HasMatches(match_result) ==
  /\ "matches" \in DOMAIN match_result
  /\ match_result.matches # <<>>

\* the lines update_sidecar_with_voiceprint writes for a comparison
VoiceprintLines(match_result) ==
  IF HasMatches(match_result)
  THEN LET best_match == match_result.matches[1]
       IN "Presenter: " \o best_match.name \o "\n"
            \o "Confidence: " \o Format2f(best_match.similarity) \o "\n"
            \o "Match type: voiceprint\n"
            \o "Detection method: Voiceprint matching from archive\n"
  ELSE "Presenter: Not detected\n" \o "Status: voiceprint_no_match\n"

update_sidecar_with_voiceprint(content, match_result) ==
  WithSection(content, presenter_section(VoiceprintLines(match_result)))

\* where ^ matches under re.MULTILINE
LineStarts(content) ==
  {i \in 1..Len(content) : i = 1 \/ Ch(content, i - 1) = "\n"}

\* the last position of the line that position i is on
RECURSIVE LineEnd(_, _)
LineEnd(content, i) ==
  IF i <= Len(content) /\ Ch(content, i) # "\n"
  THEN LineEnd(content, i + 1) ELSE i - 1

\* a match of ^Presenter:\s*\w+ at line start i
PresenterWordAt(content, i) ==
  /\ StartsAt(content, "Presenter:", i)
  /\ LET k == SpaceRunEnd(content, i + 10) + 1
     IN k <= Len(content) /\ IsWordCh(Ch(content, k))

\* group 1 of a match of ^Presenter:\s*(.+)$ at line start i, None if none:
\* \s* gives back whitespace until a character other than a newline follows
PresenterFieldAt(content, i) ==
  IF ~StartsAt(content, "Presenter:", i) THEN None
  ELSE LET starts == {k \in (i + 10)..(SpaceRunEnd(content, i + 10) + 1) :
                        k <= Len(content) /\ Ch(content, k) # "\n"}
       IN IF starts = {} THEN None
          ELSE LET k == CHOOSE k \in starts : \A j \in starts : j <= k
               IN SubSeq(content, k, LineEnd(content, k))

\* re.search(r'^Presenter:\s*(.+)$', content, re.MULTILINE).group(1)
PresenterField(content) ==
  LET matched == {i \in LineStarts(content) :
                    PresenterFieldAt(content, i) # None}
  IN IF matched = {} THEN None
     ELSE PresenterFieldAt(content,
                           CHOOSE i \in matched : \A j \in matched : i <= j)

\* find_recordings_without_presenter: the sidecar is skipped
AlreadyIdentified(content) ==
  /\ \E i \in LineStarts(content) : PresenterWordAt(content, i)
  /\ PresenterField(content) # None
  /\ Lower(Strip(PresenterField(content))) \notin {"not detected", ""}

\* --min-confidence by default
DefaultMinConfidence == <<70, 100>>

\* a variant of the acceptance test: every rank-1 match is accepted
AcceptsAny(confidence, min_confidence) == TRUE

\* a variant of the acceptance test: strictly above the minimum
AcceptsAbove(confidence, min_confidence) == ~Geq(min_confidence, confidence)

\* confidence >= args.min_confidence
Accepts(confidence, min_confidence) == Geq(confidence, min_confidence)

\* group 1 of a match of ^Unknown presenter:\s*(.+)$ at line start i, None
\* if none
UnknownFieldAt(content, i) ==
  IF ~StartsAt(content, "Unknown presenter:", i) THEN None
  ELSE LET starts == {k \in (i + 18)..(SpaceRunEnd(content, i + 18) + 1) :
                        k <= Len(content) /\ Ch(content, k) # "\n"}
       IN IF starts = {} THEN None
          ELSE LET k == CHOOSE k \in starts : \A j \in starts : j <= k
               IN SubSeq(content, k, LineEnd(content, k))

\* kiwi_recorder.extract_presenter_from_sidecar: (presenter_name, is_unknown)
extract_presenter_from_sidecar(sidecar_text) ==
  IF sidecar_text = None \/ sidecar_text = "" THEN <<None, FALSE>>
  ELSE IF /\ PresenterField(sidecar_text) # None
          /\ Strip(PresenterField(sidecar_text)) # ""
          /\ Lower(Strip(PresenterField(sidecar_text))) # "not detected"
  THEN <<Strip(PresenterField(sidecar_text)), FALSE>>
  ELSE IF \E i \in LineStarts(sidecar_text) : UnknownFieldAt(sidecar_text, i) # None
  THEN <<None, TRUE>>
  ELSE <<None, FALSE>>

(***************************************************************************)
(* State                                                                   *)
(***************************************************************************)
VARIABLES
  parse_args,        \* the arguments of a call of parse_presenter_from_transcript
  parse_result,      \* what the call returned, NoDict before it
  config,            \* Config.DETECT_PRESENTER and the disambiguator's setup
  presenters_file,   \* the presenters file on disk
  pc,                \* where the call of detect_presenter stands
  result,            \* its result dict
  tmp_path,          \* its temporary segment file: unset, exists, deleted
  failure,           \* the step that failed and how
  transcribe_output, \* stdout of the remote transcriber
  known_presenters,  \* the directory as loaded
  llm_call,          \* what the disambiguator call did
  workers,           \* args.workers of a batch run
  task,              \* per recording: where its analysis stands, and its data
  remote_segment,    \* whose audio /tmp/presenter_segment.wav holds, 0 if none
  results,           \* the results accumulator of main
  main_pc,           \* main: running, aborted by an exception, or saved
  saved,             \* the results list written to the output file
  curate_args,       \* the arguments of a call of filter_suitable_recordings
  curated,           \* what the call returned, NoDict before it
  build_args,        \* the builder's arguments, labels file and rack
  build_pc,          \* where the builder's main stands
  recordings_by_presenter, \* main's selection, NoDict before it
  database,          \* main's database, in insertion order
  validation_stats,  \* what validate_database returned
  output_file,       \* the database file at args.output
  metadata_file,     \* the file at args.metadata_output, NoDict if none
  sidecar,           \* the text of the recording's sidecar file
  voiceprint,        \* what the rack's comparison answers for the recording
  identify_pc,       \* the recording's way to and through the voiceprint pass
  identify_args,     \* the arguments of the voiceprint pass
  match_result,      \* what match_voiceprint returned, NoDict for None
  counts,            \* the pass's counters
  extract_args,      \* the argument of a call of extract_name_candidates
  candidates,        \* what the call returned, NoDict before it
  compare_args,      \* the arguments of a call of compare_against_database
  matches            \* what the call returned, NoDict before it

textVars == <<parse_args, parse_result>>
detectVars == <<config, presenters_file, pc, result, tmp_path, failure,
                transcribe_output, known_presenters, llm_call>>
batchVars == <<workers, task, remote_segment, results, main_pc, saved>>
curateVars == <<curate_args, curated>>
buildVars == <<build_args, build_pc, recordings_by_presenter, database,
               validation_stats, output_file, metadata_file>>
identifyVars == <<sidecar, voiceprint, identify_pc, identify_args,
                  match_result, counts>>
extractVars == <<extract_args, candidates>>
compareVars == <<compare_args, matches>>
vars == <<textVars, detectVars, batchVars, curateVars, buildVars, identifyVars,
         extractVars, compareVars>>

(***************************************************************************)
(* Text resolution on its own                                              *)
(***************************************************************************)
TextIdle ==
  /\ parse_args = NoDict
  /\ parse_result = NoDict

TextInit ==
  /\ parse_args \in [transcript : Transcripts, known_presenters : Directories]
  /\ parse_result = NoDict

ParsePresenter ==
  /\ parse_result = NoDict
  /\ parse_result' = parse_presenter_from_transcript(parse_args.transcript,
                                                     parse_args.known_presenters)
  /\ UNCHANGED <<parse_args, detectVars, batchVars, curateVars, buildVars, identifyVars,
                 extractVars, compareVars>>

TextNext == ParsePresenter

(***************************************************************************)
(* One call of detect_presenter, step by step                              *)
(***************************************************************************)
MaxSpoken == 1

LlmSetups ==
  { LlmSetup(FALSE, TRUE, TRUE), LlmSetup(TRUE, FALSE, TRUE),
    LlmSetup(TRUE, TRUE, FALSE), LlmSetup(TRUE, TRUE, TRUE) }

PresentersFiles ==
  { PresentersFile(FALSE, FALSE, <<>>), PresentersFile(TRUE, FALSE, <<>>) }
    \cup { PresentersFile(TRUE, TRUE, d) : d \in Directories }

TranscribeOutputs ==
  { Output("not_json", None), Output("error_object", None),
    Output("not_object", None) }
    \cup { Output("text", t) : t \in TranscriptsUpTo(MaxSpoken) }

LlmReplies == {"UNKNOWN", "Unknown", " Zeb Soanes\n", "alana smith", "Terry Wogan"}

LlmCalls ==
  { Call("timeout", None), Call("api_error", None) }
    \cup { Call("reply", r) : r \in LlmReplies }

NoFailure == [step |-> "none", event |-> "none"]
NoOutput == Output("none", None)

DetectIdle ==
  /\ config = NoDict
  /\ presenters_file = NoDict
  /\ pc = "idle"
  /\ result = NoDict
  /\ tmp_path = "unset"
  /\ failure = NoFailure
  /\ transcribe_output = NoOutput
  /\ known_presenters = <<>>
  /\ llm_call = NotCalled

DetectInit ==
  /\ config \in [DETECT_PRESENTER : BOOLEAN, llm : LlmSetups]
  /\ presenters_file \in PresentersFiles
  /\ pc = "entry"
  /\ result = NoDict
  /\ tmp_path = "unset"
  /\ failure = NoFailure
  /\ transcribe_output = NoOutput
  /\ known_presenters = <<>>
  /\ llm_call = NotCalled

\* an exception raised inside the try block reaches the except clauses
Raise(step, event) ==
  /\ failure' = [step |-> step, event |-> event]
  /\ result' = AfterException(result, event)
  /\ pc' = IF result'.match_type = Propagates THEN "raised" ELSE "returned"

\* a step that succeeded without touching the result
Proceed(next) ==
  /\ pc' = next
  /\ UNCHANGED <<result, failure>>

Enter ==
  /\ pc = "entry"
  /\ result' = IF config.DETECT_PRESENTER THEN InitialResult
               ELSE [InitialResult EXCEPT !.match_type = "disabled"]
  /\ pc' = IF config.DETECT_PRESENTER THEN "ffprobe" ELSE "returned"
  /\ UNCHANGED <<config, presenters_file, tmp_path, failure, transcribe_output,
                 known_presenters, llm_call, textVars, batchVars, curateVars, buildVars, identifyVars,
                 extractVars, compareVars>>

Ffprobe ==
  /\ pc = "ffprobe"
  /\ \E outcome \in {"ok", "nonzero_exit", "os_error", "bad_duration"} :
       IF outcome = "ok" THEN Proceed("tempfile") ELSE Raise("ffprobe", outcome)
  /\ UNCHANGED <<config, presenters_file, tmp_path, transcribe_output,
                 known_presenters, llm_call, textVars, batchVars, curateVars, buildVars, identifyVars,
                 extractVars, compareVars>>

TempFile ==
  /\ pc = "tempfile"
  /\ \E outcome \in {"ok", "os_error"} :
       IF outcome = "ok"
       THEN Proceed("ffmpeg") /\ tmp_path' = "exists"
       ELSE Raise("tempfile", outcome) /\ UNCHANGED tmp_path
  /\ UNCHANGED <<config, presenters_file, transcribe_output,
                 known_presenters, llm_call, textVars, batchVars, curateVars, buildVars, identifyVars,
                 extractVars, compareVars>>

Ffmpeg ==
  /\ pc = "ffmpeg"
  /\ \E outcome \in {"ok", "nonzero_exit", "os_error"} :
       IF outcome = "ok" THEN Proceed("scp") ELSE Raise("ffmpeg", outcome)
  /\ UNCHANGED <<config, presenters_file, tmp_path, transcribe_output,
                 known_presenters, llm_call, textVars, batchVars, curateVars, buildVars, identifyVars,
                 extractVars, compareVars>>

Scp ==
  /\ pc = "scp"
  /\ \E outcome \in {"ok", "timeout", "nonzero_exit", "os_error"} :
       IF outcome = "ok" THEN Proceed("ssh") ELSE Raise("scp", outcome)
  /\ UNCHANGED <<config, presenters_file, tmp_path, transcribe_output,
                 known_presenters, llm_call, textVars, batchVars, curateVars, buildVars, identifyVars,
                 extractVars, compareVars>>

Ssh ==
  /\ pc = "ssh"
  /\ \/ \E output \in TranscribeOutputs :
          /\ transcribe_output' = output
          /\ Proceed("json")
     \/ \E outcome \in {"timeout", "nonzero_exit", "os_error"} :
          /\ Raise("ssh", outcome)
          /\ UNCHANGED transcribe_output
  /\ UNCHANGED <<config, presenters_file, tmp_path,
                 known_presenters, llm_call, textVars, batchVars, curateVars, buildVars, identifyVars,
                 extractVars, compareVars>>

ReadJsonTo(read) ==
  CASE read.then = "continue" ->
         /\ result' = read.result
         /\ pc' = "parse"
         /\ UNCHANGED failure
    [] read.then = "return" ->
         /\ result' = read.result
         /\ pc' = "returned"
         /\ failure' = [step |-> "json", event |-> "error_object"]
    [] OTHER -> Raise("json", read.then)

ReadJson ==
  /\ pc = "json"
  /\ ReadJsonTo(ReadTranscription(result, transcribe_output))
  /\ UNCHANGED <<config, presenters_file, tmp_path, transcribe_output,
                 known_presenters, llm_call, textVars, batchVars, curateVars, buildVars, identifyVars,
                 extractVars, compareVars>>

Parse ==
  /\ pc = "parse"
  /\ known_presenters' = load_presenters(presenters_file)
  /\ result' = Update(result,
                      parse_presenter_from_transcript(result.transcript,
                                                      known_presenters'))
  /\ pc' = "validate"
  /\ UNCHANGED <<config, presenters_file, tmp_path, failure, transcribe_output,
                 llm_call, textVars, batchVars, curateVars, buildVars, identifyVars,
                 extractVars, compareVars>>

Validate ==
  /\ pc = "validate"
  /\ IF Escalates(result)
     THEN \E call \in IF Available(config.llm) THEN LlmCalls ELSE {NotCalled} :
            /\ llm_call' = call
            /\ result' = Accept(result,
                                validate_presenter_with_llm(known_presenters,
                                                            config.llm, call))
     ELSE UNCHANGED <<llm_call, result>>
  /\ pc' = "cleanup"
  /\ UNCHANGED <<config, presenters_file, tmp_path, failure, transcribe_output,
                 known_presenters, textVars, batchVars, curateVars, buildVars, identifyVars,
                 extractVars, compareVars>>

Cleanup ==
  /\ pc = "cleanup"
  /\ \E outcome \in {"ok", "os_error"} :
       IF outcome = "ok"
       THEN /\ tmp_path' = "deleted"
            /\ pc' = "returned"
            /\ UNCHANGED <<result, failure>>
       ELSE /\ Raise("unlink", outcome)
            /\ UNCHANGED tmp_path
  /\ UNCHANGED <<config, presenters_file, transcribe_output,
                 known_presenters, llm_call, textVars, batchVars, curateVars, buildVars, identifyVars,
                 extractVars, compareVars>>

DetectNext ==
  \/ Enter \/ Ffprobe \/ TempFile \/ Ffmpeg \/ Scp \/ Ssh
  \/ ReadJson \/ Parse \/ Validate \/ Cleanup

(***************************************************************************)
(* A batch run of analyze_archive                                          *)
(***************************************************************************)
NumRecordings == 2

\* what is said at the end of each recording
Spoken ==
  << "This is Alana Smith. ", "I'm Zeb Soans, ", "This is Zeb Soanes. ",
     "This is the forecast. " >>

\* isoformat of the modification times, newest first as find_recordings sorts
Stamps ==
  << "2025-12-04T00:48:10", "2025-12-03T00:48:07", "2025-12-02T00:48:12",
     "2025-12-01T00:48:09" >>

Cyclic(seq, i) == seq[((i - 1) % Len(seq)) + 1]

RecordingIds == 1..NumRecordings

\* the recordings found
Recordings ==
  [i \in RecordingIds |-> [path |-> i,
                           audio |-> Cyclic(Spoken, i),
                           timestamp |-> Cyclic(Stamps, i)]]

BatchDirectory ==
  << Presenter("Corrie Corfield", <<"Corrie", "Cory">>), Presenter("Zeb Soanes", <<"Zeb">>) >>

BatchLlm == LlmSetup(TRUE, TRUE, TRUE)

BatchCalls == { Call("timeout", None), Call("reply", "Zeb Soanes") }

\* args.workers
WorkerCounts == {1, 2}

Task(at, base, presenter_result, outcome) ==
  [pc |-> at, result |-> base, presenter_result |-> presenter_result,
   outcome |-> outcome]

Queued == Task("queued", NoDict, NoDict, "none")

BatchIdle ==
  /\ workers = 0
  /\ task = <<>>
  /\ remote_segment = 0
  /\ results = <<>>
  /\ main_pc = "idle"
  /\ saved = NoDict

BatchInit ==
  /\ workers \in WorkerCounts
  /\ task = [i \in RecordingIds |-> Queued]
  /\ remote_segment = 0
  /\ results = <<>>
  /\ main_pc = "running"
  /\ saved = NoDict

Parallel == workers > 1

Running(i) == task[i].pc \in {"convert", "scp", "ssh", "detected"}

\* a pool thread is free and the work queue is first in first out; the
\* sequential loop takes a recording when the one before is appended
MayStart(i) ==
  IF Parallel
  THEN /\ Cardinality({j \in RecordingIds : Running(j)}) < workers
       /\ \A j \in 1..(i - 1) : task[j].pc # "queued"
  ELSE \A j \in 1..(i - 1) : task[j].pc = "collected"

\* analyze_single_recording up to the try block; stat() raises for a file
\* that is gone
Start(i) ==
  /\ main_pc = "running"
  /\ task[i].pc = "queued"
  /\ MayStart(i)
  /\ \E outcome \in {"ok", "vanished"} :
       task' = [task EXCEPT ![i] =
                  IF outcome = "ok"
                  THEN Task("convert", BaseRecord(Recordings[i]), NoDict, "none")
                  ELSE Task("raised", NoDict, NoDict, "raised")]
  /\ UNCHANGED <<workers, remote_segment, results, main_pc, saved,
                 textVars, detectVars, curateVars, buildVars, identifyVars,
                 extractVars, compareVars>>

\* the conversion to WAV; on success detect_presenter runs up to its scp
Convert(i) ==
  /\ task[i].pc = "convert"
  /\ \E outcome \in {"ok", "timeout", "nonzero_exit"} :
       task' = [task EXCEPT ![i] =
                  IF outcome = "ok"
                  THEN [@ EXCEPT !.pc = "scp"]
                  ELSE Task("done", FailedRecord(@.result, outcome), NoDict, "returned")]
  /\ UNCHANGED <<workers, remote_segment, results, main_pc, saved,
                 textVars, detectVars, curateVars, buildVars, identifyVars,
                 extractVars, compareVars>>

\* scp of the segment to /tmp/presenter_segment.wav on the remote host
BatchScp(i) ==
  /\ task[i].pc = "scp"
  /\ \E outcome \in {"ok", "timeout", "nonzero_exit"} :
       IF outcome = "ok"
       THEN /\ remote_segment' = i
            /\ task' = [task EXCEPT ![i].pc = "ssh"]
       ELSE /\ task' = [task EXCEPT ![i].pc = "detected",
                                    ![i].presenter_result =
                                       AfterException(InitialResult, outcome)]
            /\ UNCHANGED remote_segment
  /\ UNCHANGED <<workers, results, main_pc, saved, textVars, detectVars, curateVars, buildVars, identifyVars,
                 extractVars, compareVars>>

\* the remote transcription of /tmp/presenter_segment.wav and the rest of
\* detect_presenter
BatchSsh(i) ==
  /\ task[i].pc = "ssh"
  /\ \/ \E call \in BatchCalls, cleanup \in {"ok", "os_error"} :
          task' = [task EXCEPT ![i].pc = "detected",
                               ![i].presenter_result =
                                  DetectAfterRead(
                                    ReadTranscription(
                                      InitialResult,
                                      Output("text", Recordings[remote_segment].audio)),
                                    BatchDirectory, BatchLlm, call, cleanup)]
     \/ \E outcome \in {"timeout", "nonzero_exit"} :
          task' = [task EXCEPT ![i].pc = "detected",
                               ![i].presenter_result =
                                  AfterException(InitialResult, outcome)]
  /\ UNCHANGED <<workers, remote_segment, results, main_pc, saved,
                 textVars, detectVars, curateVars, buildVars, identifyVars,
                 extractVars, compareVars>>

\* removal of the temporary WAV, the fields and the suitability flag
Finish(i) ==
  /\ task[i].pc = "detected"
  /\ \E unlink \in {"ok", "os_error"} :
       task' = [task EXCEPT ![i] =
                  Task("done",
                       IF unlink = "ok"
                       THEN Labelled(@.result, @.presenter_result)
                       ELSE FailedRecord(@.result, unlink),
                       NoDict, "returned")]
  /\ UNCHANGED <<workers, remote_segment, results, main_pc, saved,
                 textVars, detectVars, curateVars, buildVars, identifyVars,
                 extractVars, compareVars>>

\* the main thread appends a returned result
Collect(i) ==
  /\ main_pc = "running"
  /\ task[i].pc = "done"
  /\ results' = Appended(results, task[i].result)
  /\ task' = [task EXCEPT ![i] = Task("collected", NoDict, NoDict, "returned")]
  /\ UNCHANGED <<workers, remote_segment, main_pc, saved, textVars, detectVars, curateVars, buildVars, identifyVars,
                 extractVars, compareVars>>

\* an exception out of analyze_single_recording: logged and passed over by
\* the pool loop, not caught by the sequential loop
CollectRaised(i) ==
  /\ main_pc = "running"
  /\ task[i].pc = "raised"
  /\ task' = [task EXCEPT ![i].pc = "collected"]
  /\ main_pc' = IF Parallel THEN main_pc ELSE "aborted"
  /\ UNCHANGED <<workers, remote_segment, results, saved, textVars, detectVars, curateVars, buildVars, identifyVars,
                 extractVars, compareVars>>

\* the report is written once every recording is dealt with
Save ==
  /\ main_pc = "running"
  /\ \A i \in RecordingIds : task[i].pc = "collected"
  /\ saved' = results
  /\ main_pc' = "saved"
  /\ UNCHANGED <<workers, task, remote_segment, results, textVars, detectVars, curateVars, buildVars, identifyVars,
                 extractVars, compareVars>>

BatchNext ==
  \/ \E i \in RecordingIds :
       \/ Start(i) \/ Convert(i) \/ BatchScp(i) \/ BatchSsh(i) \/ Finish(i)
       \/ Collect(i) \/ CollectRaised(i)
  \/ Save

(***************************************************************************)
(* A call of filter_suitable_recordings                                    *)
(***************************************************************************)
MaxCorpus == 4
MaxSamples == 2

Entry(file, presenter, suitable, timestamp) ==
  [file |-> file, presenter |-> presenter, suitable_for_training |-> suitable,
   timestamp |-> timestamp]

\* entries of a label corpus; the last one has no timestamp
CorpusEntries ==
  { Entry("a.mp3", "Zeb Soanes", TRUE, "2025-12-01T00:48:09"),
    Entry("b.mp3", "Zeb Soanes", TRUE, "2025-12-03T00:48:07"),
    Entry("c.mp3", "Zeb Soanes", TRUE, "2025-12-02T00:48:12"),
    Entry("d.mp3", "Zeb Soanes", TRUE, "2025-12-03T00:48:07"),
    Entry("e.mp3", "Zeb Soanes", FALSE, "2025-12-05T00:48:11"),
    Entry("f.mp3", "Corrie Corfield", TRUE, "2025-12-04T00:48:10"),
    Entry("g.mp3", None, TRUE, "2025-12-06T00:48:10"),
    [file |-> "h.mp3", presenter |-> "Zeb Soanes", suitable_for_training |-> TRUE] }

\* the lists of at most n distinct entries
CorporaUpTo(n) ==
  UNION { { c \in [1..m -> CorpusEntries] :
              \A i, j \in 1..m : i # j => c[i] # c[j] } : m \in 0..n }

CurateIdle ==
  /\ curate_args = NoDict
  /\ curated = NoDict

CurateInit ==
  /\ curate_args \in [labels_data : [results : CorporaUpTo(MaxCorpus)],
                      max_samples : (0 - MaxSamples)..MaxSamples]
  /\ curated = NoDict

Curate ==
  /\ curate_args # NoDict
  /\ curated = NoDict
  /\ curated' = filter_suitable_recordings(curate_args.labels_data,
                                           curate_args.max_samples)
  /\ UNCHANGED <<curate_args, textVars, detectVars, batchVars, buildVars, identifyVars,
                 extractVars, compareVars>>

CurateNext == Curate

(***************************************************************************)
(* A run of the database builder's main                                    *)
(***************************************************************************)
MaxLabels == 4

\* what the rack's extractor answers per file; d.mp3 fails
Rack ==
  [file \in {e.file : e \in CorpusEntries} |->
     CASE file = "a.mp3" -> Extracted(<<1, 0>>)
       [] file = "b.mp3" -> Extracted(<<1, 1>>)
       [] file = "c.mp3" -> Extracted(<<0, 1>>)
       [] file = "d.mp3" -> Failed("exit_nonzero")
       [] file = "f.mp3" -> Extracted(<<0, 1>>)
       [] file = "h.mp3" -> Extracted(<<0 - 1, 0>>)
       [] OTHER -> Extracted(<<1, 0>>)]

\* a rack on which every extraction fails, each in its own way
RackDown ==
  [file \in {e.file : e \in CorpusEntries} |->
     CASE file = "a.mp3" -> Failed("copy_failed")
       [] file = "b.mp3" -> Failed("timeout")
       [] file = "c.mp3" -> Failed("invalid_json")
       [] file = "d.mp3" -> Failed("exit_nonzero")
       [] file = "f.mp3" -> Failed("error_response")
       [] OTHER -> Extracted(NoEmbedding)]

\* a rack that fails the newest sample of each presenter
RackFlaky ==
  [file \in {e.file : e \in CorpusEntries} |->
     CASE file = "b.mp3" -> Failed("timeout")
       [] file = "d.mp3" -> Failed("error_response")
       [] file = "f.mp3" -> Failed("copy_failed")
       [] OTHER -> Rack[file]]

Racks == {Rack, RackDown, RackFlaky}

\* the database file of an earlier build
OldDatabase == <<Voiceprints("Zeb Soanes", <<<<1, 0>>>>)>>

BuildIdle ==
  /\ build_args = NoDict
  /\ build_pc = "idle"
  /\ recordings_by_presenter = NoDict
  /\ database = <<>>
  /\ validation_stats = NoDict
  /\ output_file = <<>>
  /\ metadata_file = NoDict

BuildInit ==
  /\ build_args \in [labels_readable : BOOLEAN,
                     labels_data : [results : CorporaUpTo(MaxLabels)],
                     max_samples : 0..MaxLabels,
                     metadata_output : BOOLEAN,
                     rack : Racks]
  /\ build_args.labels_readable \/ build_args.labels_data.results = <<>>
  /\ build_pc = "load"
  /\ recordings_by_presenter = NoDict
  /\ database = <<>>
  /\ validation_stats = NoDict
  /\ output_file = OldDatabase
  /\ metadata_file = NoDict

\* json.load(f) of the labels file, return 1 when it fails
LoadLabels ==
  /\ build_pc = "load"
  /\ build_pc' = IF build_args.labels_readable THEN "filter" ELSE "failed"
  /\ UNCHANGED <<build_args, recordings_by_presenter, database,
                 validation_stats, output_file, metadata_file,
                 textVars, detectVars, batchVars, curateVars, identifyVars,
                 extractVars, compareVars>>

FilterSuitable ==
  /\ build_pc = "filter"
  /\ LET selected == filter_suitable_recordings(build_args.labels_data,
                                                build_args.max_samples)
     IN /\ recordings_by_presenter' = selected
        /\ build_pc' = IF DOMAIN selected = {} THEN "failed" ELSE "build"
  /\ UNCHANGED <<build_args, database, validation_stats, output_file,
                 metadata_file, textVars, detectVars, batchVars, curateVars, identifyVars,
                 extractVars, compareVars>>

\* a variant of the step that goes on to the save without the validation
BuildDatabaseUnvalidated ==
  /\ build_pc = "build"
  /\ LET db == build_database(recordings_by_presenter, build_args.rack)
     IN /\ database' = db
        /\ build_pc' = IF db = <<>> THEN "failed" ELSE "save"
  /\ UNCHANGED <<build_args, recordings_by_presenter, validation_stats,
                 output_file, metadata_file,
                 textVars, detectVars, batchVars, curateVars, identifyVars,
                 extractVars, compareVars>>

BuildDatabase ==
  /\ build_pc = "build"
  /\ LET db == build_database(recordings_by_presenter, build_args.rack)
     IN /\ database' = db
        /\ build_pc' = IF db = <<>> THEN "failed" ELSE "validate"
  /\ UNCHANGED <<build_args, recordings_by_presenter, validation_stats,
                 output_file, metadata_file,
                 textVars, detectVars, batchVars, curateVars, identifyVars,
                 extractVars, compareVars>>

\* validate_database and print_validation_report
ValidateDatabase ==
  /\ build_pc = "validate"
  /\ validation_stats' = validate_database(database)
  /\ build_pc' = "save"
  /\ UNCHANGED <<build_args, recordings_by_presenter, database, output_file,
                 metadata_file, textVars, detectVars, batchVars, curateVars, identifyVars,
                 extractVars, compareVars>>

\* json.dump(database, f) to args.output
SaveDatabase ==
  /\ build_pc = "save"
  /\ output_file' = database
  /\ build_pc' = "metadata"
  /\ UNCHANGED <<build_args, recordings_by_presenter, database,
                 validation_stats, metadata_file,
                 textVars, detectVars, batchVars, curateVars, identifyVars,
                 extractVars, compareVars>>

\* the metadata file if one was asked for, then return 0
SaveMetadata ==
  /\ build_pc = "metadata"
  /\ metadata_file' =
       IF build_args.metadata_output
       THEN [max_samples_per_presenter |-> build_args.max_samples,
             recordings_by_presenter |->
               [p \in DOMAIN recordings_by_presenter |->
                  [k \in 1..Len(recordings_by_presenter[p]) |->
                     recordings_by_presenter[p][k].file]],
             validation |-> validation_stats]
       ELSE metadata_file
  /\ build_pc' = "done"
  /\ UNCHANGED <<build_args, recordings_by_presenter, database,
                 validation_stats, output_file,
                 textVars, detectVars, batchVars, curateVars, identifyVars,
                 extractVars, compareVars>>

BuildNext ==
  \/ LoadLabels
  \/ FilterSuitable
  \/ BuildDatabase
  \/ ValidateDatabase
  \/ SaveDatabase
  \/ SaveMetadata

(***************************************************************************)
(* One recording from the recorder's detection to the archive's voiceprint *)
(* pass                                                                    *)
(***************************************************************************)
\* what the rack's comparison answers for the recording's audio
Comparisons ==
  { [matches |-> <<>>],
    [matches |-> <<RankedMatch("Zeb Soanes", <<95, 100>>),
                   RankedMatch("Corrie Corfield", <<40, 100>>)>>],
    [matches |-> <<RankedMatch("Corrie Corfield", <<70, 100>>),
                   RankedMatch("Zeb Soanes", <<69, 100>>)>>],
    [matches |-> <<RankedMatch("Zeb Soanes", <<69, 100>>)>>] }

\* args.min_confidence
MinConfidences == {DefaultMinConfidence, <<95, 100>>}

Forecasts == {None, "Viking: Southwest 5 to 7.\n"}

NoCounts == [identified |-> 0, low_confidence |-> 0, error |-> 0]

IdentifyIdle ==
  /\ sidecar = None
  /\ voiceprint = NoDict
  /\ identify_pc = "idle"
  /\ identify_args = NoDict
  /\ match_result = NoDict
  /\ counts = NoCounts

ResolveInit ==
  /\ config \in [DETECT_PRESENTER : BOOLEAN,
                 llm : {LlmSetup(FALSE, TRUE, TRUE), LlmSetup(TRUE, TRUE, TRUE)}]
  /\ presenters_file \in {PresentersFile(TRUE, TRUE, d) : d \in Directories \ {<<>>}}
  /\ pc = "entry"
  /\ result = NoDict
  /\ tmp_path = "unset"
  /\ failure = NoFailure
  /\ transcribe_output = NoOutput
  /\ known_presenters = <<>>
  /\ llm_call = NotCalled
  /\ sidecar \in {write_sidecar(f) : f \in Forecasts}
  /\ voiceprint \in Comparisons
  /\ identify_pc = "recording"
  /\ identify_args = NoDict
  /\ match_result = NoDict
  /\ counts = NoCounts

\* cmd_record: the sidecar gets the result detect_presenter returned
UpdateSidecar ==
  /\ identify_pc = "recording"
  /\ pc = "returned"
  /\ sidecar' = update_sidecar_with_presenter(sidecar, result)
  /\ identify_pc' = "archived"
  /\ UNCHANGED <<voiceprint, identify_args, match_result, counts,
                 textVars, detectVars, batchVars, curateVars, buildVars,
                 extractVars, compareVars>>

\* main: arguments and find_recordings_without_presenter
Scan ==
  /\ identify_pc = "archived"
  /\ \E min_confidence \in MinConfidences :
       identify_args' = [min_confidence |-> min_confidence]
  /\ identify_pc' = IF AlreadyIdentified(sidecar) THEN "done" ELSE "extract"
  /\ UNCHANGED <<sidecar, voiceprint, match_result, counts,
                 textVars, detectVars, batchVars, curateVars, buildVars,
                 extractVars, compareVars>>

\* extract_audio_segment
ExtractSegment ==
  /\ identify_pc = "extract"
  /\ \E extracted \in BOOLEAN :
       IF extracted
       THEN identify_pc' = "match" /\ UNCHANGED counts
       ELSE /\ identify_pc' = "done"
            /\ counts' = [counts EXCEPT !.error = @ + 1]
  /\ UNCHANGED <<sidecar, voiceprint, identify_args, match_result,
                 textVars, detectVars, batchVars, curateVars, buildVars,
                 extractVars, compareVars>>

\* match_voiceprint: the comparison's answer, or None when a step fails
MatchVoiceprint ==
  /\ identify_pc = "match"
  /\ \E answer \in {voiceprint, NoDict} :
       /\ match_result' = answer
       /\ IF answer = NoDict \/ ~HasMatches(answer)
          THEN /\ identify_pc' = "done"
               /\ counts' = [counts EXCEPT !.error = @ + 1]
          ELSE identify_pc' = "decide" /\ UNCHANGED counts
  /\ UNCHANGED <<sidecar, voiceprint, identify_args,
                 textVars, detectVars, batchVars, curateVars, buildVars,
                 extractVars, compareVars>>

\* the rank-1 match against args.min_confidence
Decide ==
  /\ identify_pc = "decide"
  /\ LET best_match == match_result.matches[1]
     IN IF Accepts(best_match.similarity, identify_args.min_confidence)
        THEN /\ counts' = [counts EXCEPT !.identified = @ + 1]
             /\ sidecar' = update_sidecar_with_voiceprint(sidecar, match_result)
        ELSE /\ counts' = [counts EXCEPT !.low_confidence = @ + 1]
             /\ UNCHANGED sidecar
  /\ identify_pc' = "done"
  /\ UNCHANGED <<voiceprint, identify_args, match_result,
                 textVars, detectVars, batchVars, curateVars, buildVars,
                 extractVars, compareVars>>

ResolveNext ==
  \/ DetectNext
  \/ UpdateSidecar
  \/ Scan
  \/ ExtractSegment
  \/ MatchVoiceprint
  \/ Decide

(***************************************************************************)
(* extract_name_candidates on its own                                      *)
(***************************************************************************)
\* what a call returned, once it has
ReturnValue(value) == [value |-> value]

MaxPhrases == 2

Phrases ==
  << "This is Zeb Soanes. ",
     "This is Radio Four. ",
     "This is the forecast. ",
     "with Zeb Soanes. ",
     "Now Zeb on Radio. ",
     "Good night from BBC. ",
     "I'm Zeb, ",
     "and now the weather. " >>

\* the transcripts of at most n phrases
SpokenUpTo(n) ==
  { Concat([k \in 1..Len(ix) |-> Phrases[ix[k]]]) :
      ix \in UNION { [1..m -> 1..Len(Phrases)] : m \in 0..n } }

ExtractIdle ==
  /\ extract_args = NoDict
  /\ candidates = NoDict

ExtractInit ==
  /\ extract_args \in [transcript : SpokenUpTo(MaxPhrases)]
  /\ candidates = NoDict

ExtractNameCandidates ==
  /\ candidates = NoDict
  /\ candidates' = ReturnValue(extract_name_candidates(extract_args.transcript))
  /\ UNCHANGED <<extract_args, textVars, detectVars, batchVars, curateVars, buildVars,
                 identifyVars, compareVars>>

ExtractNext == ExtractNameCandidates

(***************************************************************************)
(* compare_against_database on its own                                     *)
(***************************************************************************)
MaxPresenters == 3
MaxReferences == 2

\* embeddings of whole length; the last points away from the first query
ReferenceEmbeddings == { <<3, 4>>, <<-1, 0>> }

QueryEmbeddings == { <<4, 3>>, <<0, 0>> }

SpeakerNames == <<"Zeb Soanes", "Corrie Corfield", "Alan Smith", "Alana Smith">>

\* the reference lists of at most n embeddings
ReferencesUpTo(n) ==
  UNION { [1..m -> ReferenceEmbeddings] : m \in 0..n }

\* the databases load_database can return with at most p presenters
DatabasesUpTo(p, n) ==
  { [k \in 1..Len(refs) |-> Voiceprints(SpeakerNames[k], refs[k])] :
      refs \in UNION { [1..m -> ReferencesUpTo(n)] : m \in 0..p } }

CompareIdle ==
  /\ compare_args = NoDict
  /\ matches = NoDict

CompareInit ==
  /\ compare_args \in [embedding : QueryEmbeddings,
                       database : DatabasesUpTo(Min(MaxPresenters, Len(SpeakerNames)),
                                                MaxReferences)]
  /\ matches = NoDict

CompareAgainstDatabase ==
  /\ matches = NoDict
  /\ matches' = ReturnValue(compare_against_database(compare_args.embedding,
                                                     compare_args.database))
  /\ UNCHANGED <<compare_args, textVars, detectVars, batchVars, curateVars, buildVars,
                 identifyVars, extractVars>>

CompareNext == CompareAgainstDatabase

(***************************************************************************)
(* validate_database on its own, on the databases of the comparison        *)
(***************************************************************************)
ValidateInit ==
  /\ build_args = NoDict
  /\ build_pc = "validate"
  /\ recordings_by_presenter = NoDict
  /\ database \in DatabasesUpTo(Min(MaxPresenters, Len(SpeakerNames)), MaxReferences)
  /\ validation_stats = NoDict
  /\ output_file = <<>>
  /\ metadata_file = NoDict

ValidateNext == ValidateDatabase

(***************************************************************************)
(* Specifications                                                          *)
(***************************************************************************)
\* text resolution alone
InitText == TextInit /\ DetectIdle /\ BatchIdle /\ CurateIdle /\ BuildIdle
  /\ IdentifyIdle /\ ExtractIdle /\ CompareIdle

SpecText == InitText /\ [][TextNext]_vars

\* one resolution alone
InitDetect == TextIdle /\ DetectInit /\ BatchIdle /\ CurateIdle /\ BuildIdle
  /\ IdentifyIdle /\ ExtractIdle /\ CompareIdle

SpecDetect == InitDetect /\ [][DetectNext]_vars

\* one batch run alone
InitBatch == TextIdle /\ DetectIdle /\ BatchInit /\ CurateIdle /\ BuildIdle
  /\ IdentifyIdle /\ ExtractIdle /\ CompareIdle

SpecBatch == InitBatch /\ [][BatchNext]_vars

\* one curation alone
InitCurate == TextIdle /\ DetectIdle /\ BatchIdle /\ CurateInit /\ BuildIdle
  /\ IdentifyIdle /\ ExtractIdle /\ CompareIdle

SpecCurate == InitCurate /\ [][CurateNext]_vars

\* one run of the builder alone
InitBuild == TextIdle /\ DetectIdle /\ BatchIdle /\ CurateIdle /\ BuildInit
  /\ IdentifyIdle /\ ExtractIdle /\ CompareIdle

SpecBuild == InitBuild /\ [][BuildNext]_vars

\* one recording: detection, sidecar, voiceprint pass
InitResolve ==
  TextIdle /\ BatchIdle /\ CurateIdle /\ BuildIdle /\ ResolveInit
  /\ ExtractIdle /\ CompareIdle

SpecResolve == InitResolve /\ [][ResolveNext]_vars

\* one call of extract_name_candidates alone
InitExtract ==
  TextIdle /\ DetectIdle /\ BatchIdle /\ CurateIdle /\ BuildIdle /\ IdentifyIdle
  /\ ExtractInit /\ CompareIdle

SpecExtract == InitExtract /\ [][ExtractNext]_vars

\* one call of compare_against_database alone
InitCompare ==
  TextIdle /\ DetectIdle /\ BatchIdle /\ CurateIdle /\ BuildIdle /\ IdentifyIdle
  /\ ExtractIdle /\ CompareInit

SpecCompare == InitCompare /\ [][CompareNext]_vars

\* one call of validate_database alone
InitValidate ==
  TextIdle /\ DetectIdle /\ BatchIdle /\ CurateIdle /\ ValidateInit /\ IdentifyIdle
  /\ ExtractIdle /\ CompareIdle

SpecValidate == InitValidate /\ [][ValidateNext]_vars



(***************************************************************************)
(* Properties of text resolution                                           *)
(***************************************************************************)
Parsed == parse_result # NoDict

Candidates == extract_name_candidates(parse_args.transcript)

\* the candidate passes none of the four tests against the presenter
PassesNoTest(candidate, presenter) ==
  LET c == Lower(candidate)
      vs == presenter.variations
  IN /\ c # Lower(presenter.name)
     /\ \A k \in 1..Len(vs) : c # Lower(vs[k])
     /\ Lt(ratio(c, Lower(presenter.name)), DefaultThreshold)
     /\ \A k \in 1..Len(vs) : Lt(ratio(c, Lower(vs[k])), DefaultThreshold)

EqualsVariation(candidate, presenter) ==
  \E k \in 1..Len(presenter.variations) : Lower(candidate) = Lower(presenter.variations[k])

ResultIs(presenter, raw_match, confidence, match_type) ==
  /\ parse_result.presenter = presenter
  /\ parse_result.raw_match = raw_match
  /\ SameValue(parse_result.confidence, confidence)
  /\ parse_result.match_type = match_type

\* C7 as stated: whenever the first candidate equals, ignoring case, the
\* canonical name (a variation) of some presenter of the directory, the result
\* is that presenter, the candidate, 1.0 and exact (variation).
C7_AnyPresenter ==
  (Parsed /\ Candidates # <<>>) =>
    \A k \in 1..Len(parse_args.known_presenters) :
      LET p == parse_args.known_presenters[k]
      IN /\ Lower(Candidates[1]) = Lower(p.name)
              => ResultIs(p.name, Candidates[1], One, "exact")
         /\ EqualsVariation(Candidates[1], p)
              => ResultIs(p.name, Candidates[1], One, "variation")

\* C7 amended: the same, for a presenter that no earlier presenter of the
\* directory shadows: no presenter before it passes any of the four tests on
\* the candidate (and, for variation, the candidate is not the presenter's own
\* canonical name).
C7_FirstPresenter ==
  (Parsed /\ Candidates # <<>>) =>
    \A k \in 1..Len(parse_args.known_presenters) :
      LET p == parse_args.known_presenters[k]
          unshadowed == \A j \in 1..(k - 1) :
                          PassesNoTest(Candidates[1], parse_args.known_presenters[j])
      IN /\ (unshadowed /\ Lower(Candidates[1]) = Lower(p.name))
              => ResultIs(p.name, Candidates[1], One, "exact")
         /\ (unshadowed /\ Lower(Candidates[1]) # Lower(p.name)
               /\ EqualsVariation(Candidates[1], p))
              => ResultIs(p.name, Candidates[1], One, "variation")

\* C7 witness: a call returned exact for a first candidate equal to the name
\* of the second presenter of the directory, the first presenter not matching.
C7_Witness ==
  /\ Parsed
  /\ Candidates # <<>>
  /\ Len(parse_args.known_presenters) = 2
  /\ Lower(Candidates[1]) = Lower(parse_args.known_presenters[2].name)
  /\ PassesNoTest(Candidates[1], parse_args.known_presenters[1])
  /\ parse_result.match_type = "exact"

\* C8: the result is no_match (with presenter None, raw_match None, 0.0)
\* exactly when the extractor yields no candidate, as for the empty transcript
\* and for a sign-off of stop-set words only; with candidates none of which
\* passes a test against any presenter, the result is presenter None,
\* raw_match the first candidate, 0.0, unknown.
C8_NoMatchAndUnknown ==
  Parsed =>
    /\ (Candidates = <<>>) <=> (parse_result.match_type = "no_match")
    /\ Candidates = <<>> => ResultIs(None, None, Zero, "no_match")
    /\ parse_args.transcript \in {"", "This is the forecast. "}
         => parse_result.match_type = "no_match"
    /\ (/\ Candidates # <<>>
        /\ \A i \in 1..Len(Candidates) : \A k \in 1..Len(parse_args.known_presenters) :
             PassesNoTest(Candidates[i], parse_args.known_presenters[k]))
         => ResultIs(None, Candidates[1], Zero, "unknown")

\* C8 witness: two different candidates, a directory that knows neither, and
\* the result unknown.
C8_Witness ==
  /\ Parsed
  /\ Len(Candidates) = 2
  /\ Candidates[1] # Candidates[2]
  /\ parse_args.known_presenters # <<>>
  /\ parse_result.match_type = "unknown"
  /\ parse_result.raw_match = Candidates[1]

(***************************************************************************)
(* Properties of detect_presenter                                          *)
(***************************************************************************)
Returned == pc = "returned"

ResolvedTypes ==
  {"exact", "variation", "fuzzy", "fuzzy_variation", "llm_validated", "biometric"}

UnresolvedTypes ==
  {"transcription_error", "timeout", "command_error", "parse_error", "error",
   "unknown", "no_match", "disabled"}

\* C1: every returned result has a presenter only if its match_type is one of
\* exact, variation, fuzzy, fuzzy_variation, llm_validated, biometric, and a
\* result with an error type, unknown, no_match or disabled has presenter None,
\* whatever step failed.
C1_PresenterOnlyIfResolved ==
  Returned =>
    /\ result.presenter # None => result.match_type \in ResolvedTypes
    /\ result.match_type \in UnresolvedTypes => result.presenter = None

\* the steps up to and including the reading of the transcriber's output
TranscriptionSteps == {"ffprobe", "tempfile", "ffmpeg", "scp", "ssh", "json"}

\* the classification the failure of an external step is to get
ClassifiedAs(event) ==
  CASE event = "timeout" -> "timeout"
    [] event = "nonzero_exit" -> "command_error"
    [] event = "not_json" -> "parse_error"
    [] event = "error_object" -> "transcription_error"
    [] OTHER -> "error"

\* C2: detect_presenter never raises to its caller, and a failure of the
\* transcription stage is classified (timeout, command_error, parse_error,
\* transcription_error, error for anything else) in a returned result that has
\* confidence 0.0 and presenter None.
C2_TranscriptionFailureClassified ==
  /\ pc # "raised"
  /\ Returned /\ failure.step \in TranscriptionSteps =>
       /\ result.match_type = ClassifiedAs(failure.event)
       /\ result.confidence = Zero
       /\ result.presenter = None

C2_Witness ==
  /\ Returned
  /\ failure = [step |-> "ssh", event |-> "timeout"]
  /\ result.match_type = "timeout"

LlmFailed == llm_call.kind \in {"timeout", "api_error"}

ErrorTypes ==
  {"transcription_error", "timeout", "command_error", "parse_error", "error"}

TextOutcome == parse_presenter_from_transcript(result.transcript, known_presenters)

RecordsOf(i, list) == {k \in 1..Len(list) : list[k].file = Recordings[i].path}

\* C4: the batch is never aborted by a recording's failure, and the saved
\* results hold a record for every recording found.
C4_EveryRecordingRecorded ==
  /\ main_pc # "aborted"
  /\ main_pc = "saved" => \A i \in RecordingIds : RecordsOf(i, saved) # {}

HasTranscript(r) == "transcript" \in DOMAIN r /\ r.transcript # None

\* C5: with the worker pool, the transcript recorded for a recording is the
\* transcription of that recording's own audio, whatever the interleaving.
C5_OwnAudioOnly ==
  Parallel =>
    \A k \in 1..Len(results) :
      HasTranscript(results[k]) =>
        results[k].transcript = Recordings[results[k].file].audio

ReturnedAndCollected(i) ==
  task[i].pc = "collected" /\ task[i].outcome = "returned"

\* C6: with the worker pool, an analysis that returned has its result in the
\* accumulator exactly once when collected (none before, none for an analysis
\* that raised), and every record there carries the file and timestamp of its
\* own recording.
C6_AppendedExactlyOnce ==
  Parallel =>
    /\ \A i \in RecordingIds :
         Cardinality(RecordsOf(i, results)) = IF ReturnedAndCollected(i) THEN 1 ELSE 0
    /\ \A k \in 1..Len(results) :
         /\ results[k].file \in RecordingIds
         /\ results[k].timestamp = Recordings[results[k].file].timestamp

\* both analyses returned, the second completed first
C6_Witness ==
  /\ Parallel
  /\ Len(results) = NumRecordings
  /\ results[1].file = 2
  /\ results[2].file = 1

\* the records analyze_single_recording has returned
RecordsWritten ==
  {results[k] : k \in 1..Len(results)}
    \cup {task[i].result : i \in {j \in RecordingIds : task[j].pc = "done"}}

ConfidentEnough(r) ==
  "confidence" \in DOMAIN r /\ Geq(r.confidence, <<8, 10>>)

\* C9: in every record, on the timeout and error paths too,
\* suitable_for_training is true exactly when presenter is not None,
\* confidence >= 0.8 and match_type is exact, variation or llm_validated;
\* fuzzy, fuzzy_variation and biometric records are never suitable.
C9_SuitableIff ==
  \A r \in RecordsWritten :
    /\ r.suitable_for_training <=>
         /\ r.presenter # None
         /\ ConfidentEnough(r)
         /\ r.match_type \in {"exact", "variation", "llm_validated"}
    /\ r.match_type \in {"fuzzy", "fuzzy_variation", "biometric"} =>
         ~r.suitable_for_training

\* a validated record marked suitable next to a confident fuzzy one that is not
C9_Witness ==
  /\ main_pc = "saved"
  /\ \E k \in 1..Len(saved) :
       /\ saved[k].match_type = "llm_validated"
       /\ saved[k].suitable_for_training
  /\ \E k \in 1..Len(saved) :
       /\ saved[k].match_type = "fuzzy"
       /\ ConfidentEnough(saved[k])
       /\ ~saved[k].suitable_for_training

(***************************************************************************)
(* Properties of the curator                                               *)
(***************************************************************************)
Curated == curated # NoDict

Corpus == curate_args.labels_data.results

\* the corpus entries that count for a presenter
Eligible(p) ==
  {Corpus[k] : k \in {j \in 1..Len(Corpus) :
                        Corpus[j].suitable_for_training /\ Corpus[j].presenter = p}}

Kept(p) == {curated[p][k] : k \in 1..Len(curated[p])}

NotOlder(x, y) == ~StrLess(TimestampKey(x), TimestampKey(y))

\* only suitable entries of the presenter, none twice, newest first
OwnNewestFirst(p) ==
  /\ Kept(p) \subseteq Eligible(p)
  /\ Cardinality(Kept(p)) = Len(curated[p])
  /\ \A a, b \in 1..Len(curated[p]) : a < b => NotOlder(curated[p][a], curated[p][b])

\* what is kept is not older than what is discarded
KeepsNewest(p) ==
  \A x \in Kept(p) : \A y \in Eligible(p) \ Kept(p) : NotOlder(x, y)

Validated == validation_stats # NoDict

\* the presenters that got a within-speaker entry
WithinEntries == DOMAIN validation_stats.within_speaker_similarity

\* C11: the validation report holds a within-speaker entry for a presenter
\* of the database exactly when the presenter has two or more embeddings,
\* and then the entry's count is n(n-1)/2 for its n embeddings
C11_WithinEntryIffTwo ==
  Validated =>
    /\ WithinEntries \subseteq {database[k].presenter : k \in 1..Len(database)}
    /\ \A k \in 1..Len(database) :
         LET n == Len(database[k].embeddings)
             presenter == database[k].presenter
         IN /\ presenter \in WithinEntries <=> n >= 2
            /\ n >= 2 =>
                 2 * validation_stats.within_speaker_similarity[presenter].count
                   = n * (n - 1)

\* validated: one presenter with three embeddings and an entry of count 3,
\* next to one with a single embedding and no entry
C11_Witness ==
  /\ Validated
  /\ \E j, k \in 1..Len(database) :
       /\ Len(database[j].embeddings) = 3
       /\ validation_stats.within_speaker_similarity[database[j].presenter].count = 3
       /\ Len(database[k].embeddings) = 1
       /\ database[k].presenter \notin WithinEntries

(***************************************************************************)
(* Properties of one recording's way to the voiceprint pass                *)
(***************************************************************************)
\* the comparison would rank first a match of at least the default minimum
GoodVoiceprint ==
  /\ HasMatches(voiceprint)
  /\ Geq(voiceprint.matches[1].similarity, DefaultMinConfidence)

Attempted ==
  \/ identify_pc \in {"extract", "match", "decide"}
  \/ identify_pc = "done" /\ counts # NoCounts

\* the lines of an accepted rank-1 match are in the sidecar
VoiceprintWritten ==
  Contains(sidecar,
           "\nPresenter: " \o match_result.matches[1].name
             \o "\nConfidence: " \o Format2f(match_result.matches[1].similarity)
             \o "\nMatch type: voiceprint\n")

Malformed == presenters_file.exists /\ ~presenters_file.valid

\* C14: a malformed or unreadable presenters file is fatal: no resolution
\* returns a result of text matching (unknown or no_match) made from an empty
\* directory standing in for it.
C14_MalformedDirectoryFatal ==
  (Malformed /\ Returned) => result.match_type \notin {"unknown", "no_match"}

(***************************************************************************)
(* Properties of the escalation                                            *)
(***************************************************************************)
\* validation is disabled, or the library or the API key is missing
Unavailable ==
  \/ ~config.llm.LLM_VALIDATE_PRESENTER
  \/ ~config.llm.installed
  \/ ~config.llm.api_key

\* the four fields are what the text matcher gave for the transcript
AsTextMatcher ==
  /\ result.presenter = TextOutcome.presenter
  /\ result.raw_match = TextOutcome.raw_match
  /\ result.confidence = TextOutcome.confidence
  /\ result.match_type = TextOutcome.match_type

\* the escalation step is behind and nothing has failed since
Escalation == pc = "cleanup" \/ (Returned /\ tmp_path = "deleted")

\* C15: with the disambiguator unavailable no external call is ever made,
\* and after the escalation step presenter, raw_match, confidence and
\* match_type are exactly the text matcher's: no error match_type, no failure.
C15_UnavailableSkipsEscalation ==
  Unavailable =>
    /\ llm_call = NotCalled
    /\ Escalation => AsTextMatcher /\ failure = NoFailure

\* unavailable for want of the API key, on a result that asks for escalation
C15_Witness ==
  /\ config.llm = LlmSetup(TRUE, TRUE, FALSE)
  /\ Returned /\ tmp_path = "deleted"
  /\ Escalates(result)
  /\ result.match_type = "fuzzy_variation"

\* the disambiguator replied; its reply as the validator reads it
Replied == llm_call.kind = "reply"
Reply == Strip(llm_call.text)

\* the directory's entries whose canonical name the reply equals, case apart
NamedByReply ==
  {k \in 1..Len(known_presenters) :
     Lower(known_presenters[k].name) = Lower(Reply)}

\* C16: a reply is accepted only if it equals, case apart, a canonical name of
\* the directory: then presenter is that canonical name, match_type is
\* llm_validated, confidence is 0.9 and raw_match stays the text matcher's.
\* After UNKNOWN in any case, or a reply that names nobody in the directory,
\* all four fields stay the text matcher's.
C16_ReplyAcceptedIffCanonical ==
  (Replied /\ Escalation) =>
    IF Lower(Reply) # "unknown" /\ NamedByReply # {}
    THEN /\ \E k \in NamedByReply :
              /\ \A j \in NamedByReply : k <= j
              /\ result.presenter = known_presenters[k].name
         /\ result.match_type = "llm_validated"
         /\ result.confidence = <<9, 10>>
         /\ result.raw_match = TextOutcome.raw_match
    ELSE AsTextMatcher

\* a reply in another case accepted as the canonical name
C16_Witness ==
  /\ Returned
  /\ llm_call = Call("reply", "alana smith")
  /\ result.presenter = "Alana Smith"
  /\ result.match_type = "llm_validated"

\* the canonical names of the directory this resolution loads
CanonicalNames ==
  LET directory == load_presenters(presenters_file)
  IN {directory[k].name : k \in 1..Len(directory)}

\* C17: a presenter in a returned result is always the canonical name of an
\* entry of the directory loaded for the resolution, never the candidate as
\* heard, a variation, the disambiguator's reply as given, or the fallback
\* label Unknown Announcer.
C17_PresenterIsCanonical ==
  (Returned /\ result.presenter # None) =>
    /\ result.presenter \in CanonicalNames
    /\ result.presenter # "Unknown Announcer"

\* a presenter resolved from a variation that is not the canonical name
C17_Witness ==
  /\ Returned
  /\ result.match_type = "variation"
  /\ result.presenter = "Zeb Soanes"
  /\ result.raw_match # result.presenter

\* the similarity dot / (sqrt(norms) + 1e-8) is below the 0.5 that the
\* validation report asks of between-speaker similarities
BelowHalf(similarity) ==
  similarity.dot <= 0 \/ 4 * similarity.dot * similarity.dot <= similarity.norms

\* the validation found no pair of presenters at or above that level
AcceptableSeparation ==
  \A k \in 1..Len(validation_stats.between_speaker_similarity) :
    BelowHalf(validation_stats.between_speaker_similarity[k].similarity)

\* the builder has written the output file
DatabaseSaved == build_pc \in {"metadata", "done"}

\* C18 as stated: the new database reaches the output path only after
\* validate_database reported an acceptable separation; a database with
\* confusable presenters does not replace the old file.
C18_SavedOnlyIfSeparated ==
  DatabaseSaved => Validated /\ AcceptableSeparation

\* C18: the new database reaches the output path only after validate_database
\* has run on it, and then whatever the validation reported; until then, and
\* when the run fails before, the old file stays.
C18_SavedAfterValidation ==
  /\ DatabaseSaved =>
       /\ Validated
       /\ validation_stats = validate_database(database)
       /\ output_file = database
  /\ ~DatabaseSaved /\ build_pc # "idle" => output_file = OldDatabase

\* a database whose two presenters have the same first embedding, saved
C18_Witness ==
  /\ DatabaseSaved
  /\ output_file = database
  /\ Len(database) = 2
  /\ database[1].embeddings[1] = database[2].embeddings[1]
  /\ ~AcceptableSeparation

\* the first of the four tests the candidate passes against the presenter,
\* with the confidence it gives
FirstTest(candidate, presenter) ==
  LET c == Lower(candidate)
      n == Lower(presenter.name)
      vs == presenter.variations
      close == {k \in 1..Len(vs) : Geq(ratio(c, Lower(vs[k])), DefaultThreshold)}
  IN IF c = n THEN [match_type |-> "exact", confidence |-> One]
     ELSE IF EqualsVariation(candidate, presenter)
     THEN [match_type |-> "variation", confidence |-> One]
     ELSE IF Geq(ratio(c, n), DefaultThreshold)
     THEN [match_type |-> "fuzzy", confidence |-> ratio(c, n)]
     ELSE [match_type |-> "fuzzy_variation",
           confidence |-> ratio(c, Lower(vs[CHOOSE k \in close :
                                               \A j \in close : k <= j]))]

\* candidate i and presenter k are the first pair, candidates before
\* presenters, that passes a test
FirstPair(i, k) ==
  /\ ~PassesNoTest(Candidates[i], parse_args.known_presenters[k])
  /\ \A j \in 1..(k - 1) :
       PassesNoTest(Candidates[i], parse_args.known_presenters[j])
  /\ \A h \in 1..(i - 1) : \A j \in 1..Len(parse_args.known_presenters) :
       PassesNoTest(Candidates[h], parse_args.known_presenters[j])

\* C19: the result is the first success, candidates in the extractor's order,
\* presenters in the directory's order, tests in the order exact, variation,
\* fuzzy on the canonical name, fuzzy on the variations: a later presenter,
\* candidate or variation is not consulted, whatever it would score.
C19_FirstMatchWins ==
  Parsed =>
    \A i \in 1..Len(Candidates) : \A k \in 1..Len(parse_args.known_presenters) :
      FirstPair(i, k) =>
        LET test == FirstTest(Candidates[i], parse_args.known_presenters[k])
        IN ResultIs(parse_args.known_presenters[k].name, Candidates[i],
                    test.confidence, test.match_type)

\* a fuzzy result for the first presenter, where the second presenter of the
\* directory would have matched the same candidate with a higher confidence
C19_Witness ==
  /\ Parsed
  /\ Len(parse_args.known_presenters) = 2
  /\ \E i \in 1..Len(Candidates) :
       /\ FirstPair(i, 1)
       /\ ~PassesNoTest(Candidates[i], parse_args.known_presenters[2])
       /\ Lt(parse_result.confidence,
             FirstTest(Candidates[i], parse_args.known_presenters[2]).confidence)
  /\ parse_result.match_type = "fuzzy"
  /\ parse_result.presenter = parse_args.known_presenters[1].name

\* the ratio behind a fuzzy result: raw_match against the presenter's name
\* (fuzzy) or against one of the presenter's variations (fuzzy_variation)
IsRatioOfMatch ==
  \E k \in 1..Len(known_presenters) :
    LET p == known_presenters[k]
        c == Lower(result.raw_match)
    IN /\ p.name = result.presenter
       /\ IF result.match_type = "fuzzy"
          THEN SameValue(result.confidence, ratio(c, Lower(p.name)))
          ELSE \E v \in 1..Len(p.variations) :
                 SameValue(result.confidence, ratio(c, Lower(p.variations[v])))

\* C20: in every returned result the match_type fixes the confidence:
\* exactly 1.0 for exact and variation; the similarity ratio, at least 0.7 and
\* below 1.0, for fuzzy and fuzzy_variation; exactly 0.9 for llm_validated;
\* 0.0 for every other match_type.
C20_ConfidenceByType ==
  Returned =>
    CASE result.match_type \in {"exact", "variation"} ->
           SameValue(result.confidence, One)
      [] result.match_type \in {"fuzzy", "fuzzy_variation"} ->
           /\ Geq(result.confidence, DefaultThreshold)
           /\ Lt(result.confidence, One)
           /\ IsRatioOfMatch
      [] result.match_type = "llm_validated" ->
           SameValue(result.confidence, LlmConfidence)
      [] OTHER -> SameValue(result.confidence, Zero)

\* the disambiguator is invoked in this step
Invoked == llm_call' # llm_call

\* C21: the disambiguator is invoked at most once per resolution and only in
\* the escalation step, with the transcription read and text matching done:
\* there is a raw_match, and match_type is unknown, or fuzzy or
\* fuzzy_variation with a confidence below 0.85. It is not invoked for exact,
\* variation or no_match, for a fuzzy confidence of 0.85 or more, or after a
\* transcription failure.
C21_InvokedOnceWhenUncertain ==
  [][Invoked =>
       /\ llm_call = NotCalled
       /\ pc = "validate" /\ pc' = "cleanup"
       /\ failure = NoFailure
       /\ AsTextMatcher
       /\ result.raw_match # None /\ result.raw_match # ""
       /\ \/ result.match_type = "unknown"
          \/ /\ result.match_type \in {"fuzzy", "fuzzy_variation"}
             /\ Lt(result.confidence, <<85, 100>>)]_vars

\* a call made for a fuzzy_variation match of confidence 8/11
C21_Witness ==
  /\ llm_call.kind = "reply"
  /\ TextOutcome.match_type = "fuzzy_variation"
  /\ SameValue(TextOutcome.confidence, <<8, 11>>)
  /\ pc = "cleanup"

(***************************************************************************)
(* Properties of the candidate extractor                                   *)
(***************************************************************************)
\* the spans the patterns capture: pattern by pattern, and left to right
\* within a pattern
RECURSIVE SpansFrom(_, _)
SpansFrom(patterns, transcript) ==
  IF patterns = <<>> THEN <<>>
  ELSE FindAll(Head(patterns), transcript, 1) \o SpansFrom(Tail(patterns), transcript)

Spans == SpansFrom(PRESENTER_NAME_PATTERNS, extract_args.transcript)

\* the words of a span, case-folded, that are outside the stop-set
NameWords(span) ==
  { k \in 1..Len(Split(Lower(span))) :
      Split(Lower(span))[k] \notin PRESENTER_FALSE_POSITIVES }

KeptSpans == { k \in 1..Len(Spans) : NameWords(Spans[k]) # {} }

Heard == candidates.value

\* C22: every candidate is non-empty and has a word (case-folded) outside the
\* stop-set; a matched span is dropped iff all its words are in the stop-set;
\* the candidates are the kept spans in pattern order, then text order within
\* a pattern, duplicates included.
C22_CandidatesAreNamedSpans ==
  candidates # NoDict =>
    /\ \A k \in 1..Len(Heard) : Heard[k] # "" /\ NameWords(Heard[k]) # {}
    /\ Len(Heard) = Cardinality(KeptSpans)
    /\ \A k \in KeptSpans :
         Heard[Cardinality({ j \in KeptSpans : j <= k })] = Spans[k]

\* a span of stop words dropped and a span with one stop word kept
C22_Witness ==
  /\ candidates # NoDict
  /\ Len(Heard) < Len(Spans)
  /\ \E k \in 1..Len(Heard) :
       Cardinality(NameWords(Heard[k])) < Len(Split(Heard[k]))

(***************************************************************************)
(* Properties of the comparison against the database                       *)
(***************************************************************************)
Compared == matches.value

Query == compare_args.embedding

References == compare_args.database

\* where the presenter of an entry stands in the database
PositionOf(name) == CHOOSE k \in 1..Len(References) : References[k].presenter = name

\* the similarities of the query to the references of the k-th presenter, as
\* reported: rounded to four decimals
Reported(k) ==
  { Round4(speaker_cosine_similarity(Query, References[k].embeddings[r])) :
      r \in 1..Len(References[k].embeddings) }

\* ten thousand times the sum of the k-th presenter's similarities
SumTimes10000(k) ==
  <<10000 * SumOf(ReferenceSimilarities(Query, References[k].embeddings))[1],
    SumOf(ReferenceSimilarities(Query, References[k].embeddings))[2]>>

\* avg is the arithmetic mean of n similarities, to four decimals:
\* |avg * n - sum| <= n * 0.00005
IsMeanOf(avg, k, n) ==
  LET s == SumTimes10000(k)
      d == avg[1] * n * s[2] - s[1]
  IN 2 * (IF d < 0 THEN 0 - d ELSE d) <= n * s[2]

EntryOf(entry, k) ==
  /\ entry.num_references = Len(References[k].embeddings)
  /\ IF References[k].embeddings = <<>>
     THEN entry.similarity = <<0, 10000>> /\ entry.avg_similarity = <<0, 10000>>
     ELSE /\ entry.similarity \in Reported(k)
          /\ \A s \in Reported(k) : Geq(entry.similarity, s)
          /\ IsMeanOf(entry.avg_similarity, k, Len(References[k].embeddings))
  /\ Geq(entry.similarity, entry.avg_similarity)

\* C23: the comparison returns exactly one entry per presenter of the
\* database, whatever its similarity: a presenter without references has
\* similarity 0.0 and 0 references; otherwise the best similarity is the
\* maximum and the average the mean over the references, so best >= average.
\* The entries are in non-increasing order of best similarity, ranked 1..N,
\* and entries of equal similarity keep the order of the database.
C23_OneRankedEntryPerPresenter ==
  matches # NoDict =>
    /\ Len(Compared) = Len(References)
    /\ \A k \in 1..Len(References) :
         Cardinality({ i \in 1..Len(Compared) :
                         Compared[i].name = References[k].presenter }) = 1
    /\ \A i \in 1..Len(Compared) :
         /\ Compared[i].rank = i
         /\ EntryOf(Compared[i], PositionOf(Compared[i].name))
    /\ \A i, j \in 1..Len(Compared) :
         i < j =>
           /\ Geq(Compared[i].similarity, Compared[j].similarity)
           /\ SameValue(Compared[i].similarity, Compared[j].similarity)
                => PositionOf(Compared[i].name) < PositionOf(Compared[j].name)

\* three presenters: the last in the database ranked first, best above
\* average; the other two tied at 0.0, one of them without references
C23_Witness ==
  /\ matches # NoDict
  /\ Len(Compared) = 3
  /\ PositionOf(Compared[1].name) = 3
  /\ Lt(Compared[1].avg_similarity, Compared[1].similarity)
  /\ Compared[2].similarity = <<0, 10000>> /\ Compared[3].similarity = <<0, 10000>>
  /\ Compared[2].num_references = 0 /\ Compared[3].num_references = 1

(***************************************************************************)
(* Properties of the archive's voiceprint pass                             *)
(***************************************************************************)
\* the recording is in the pass's loop
InLoop == identify_pc \in {"extract", "match", "decide"}

\* the loop is done with the recording in this step
Processed == InLoop /\ identify_pc' = "done"

Counted(c) == c.identified + c.low_confidence + c.error

\* C24: the pass modifies a sidecar only when the comparison returned a
\* rank-1 match whose similarity is at least min_confidence; on an extraction
\* or matching failure, or below the minimum, the sidecar is unchanged. Every
\* recording the loop processes is counted in exactly one of identified,
\* low-confidence and error, so the counters sum to the number processed.
C24_SidecarOnlyOnAcceptedMatch ==
  [][/\ (identify_pc # "recording" /\ sidecar' # sidecar) =>
          /\ HasMatches(match_result)
          /\ Geq(match_result.matches[1].similarity, identify_args.min_confidence)
          /\ counts'.identified = counts.identified + 1
     /\ Processed =>
          /\ Counted(counts') = Counted(counts) + 1
          /\ \E counter \in {"identified", "low_confidence", "error"} :
               counts' = [counts EXCEPT ![counter] = @ + 1]
     /\ ~Processed => counts' = counts]_vars

\* a rank-1 match of exactly the default minimum, accepted and written
C24_Witness ==
  /\ identify_pc = "done"
  /\ counts = [identified |-> 1, low_confidence |-> 0, error |-> 0]
  /\ identify_args.min_confidence = DefaultMinConfidence
  /\ match_result.matches[1].similarity = <<70, 100>>
  /\ Contains(sidecar, "Presenter: Corrie Corfield\nConfidence: 0.70\nMatch type: voiceprint\n")

\* the sidecar the recorder left names no presenter and the pass accepted a
\* match for the recording
AcceptedByPass == identify_pc = "done" /\ counts.identified = 1

\* C27: once the pass has accepted a match and written it to the sidecar, a
\* scan of find_recordings_without_presenter skips the recording, whatever
\* presenter section the sidecar held before, and
\* extract_presenter_from_sidecar reads the identified name back.
C27_AcceptedIsNotListedAgain ==
  AcceptedByPass =>
    /\ AlreadyIdentified(sidecar)
    /\ extract_presenter_from_sidecar(sidecar) = <<match_result.matches[1].name, FALSE>>

(***************************************************************************)
(* Properties of build_database                                            *)
(***************************************************************************)
\* build_database has returned
Built == build_pc \notin {"load", "filter", "build"} /\ recordings_by_presenter # NoDict

\* the curated samples of a presenter whose extraction gave an embedding
Succeeded(presenter) ==
  { k \in 1..Len(recordings_by_presenter[presenter]) :
      LET answer == build_args.rack[recordings_by_presenter[presenter][k].file]
      IN answer.kind = "response" /\ answer.embedding # NoEmbedding }

EmbeddingOfSample(presenter, k) ==
  build_args.rack[recordings_by_presenter[presenter][k].file].embedding

ItemsOf(presenter) == { i \in 1..Len(database) : database[i].presenter = presenter }

\* C25: build_database returns for every curator output and every pattern of
\* extraction failures. Each presenter of the database maps to the embeddings
\* of exactly the curated samples whose extraction succeeded, one per sample,
\* in the curator's order; a presenter none of whose samples succeeded is
\* absent, and no key maps to an empty list.
C25_DatabaseOfSucceededSamples ==
  Built =>
    /\ \A i \in 1..Len(database) :
         /\ database[i].presenter \in DOMAIN recordings_by_presenter
         /\ database[i].embeddings # <<>>
    /\ \A presenter \in DOMAIN recordings_by_presenter :
         IF Succeeded(presenter) = {}
         THEN ItemsOf(presenter) = {}
         ELSE /\ Cardinality(ItemsOf(presenter)) = 1
              /\ \A i \in ItemsOf(presenter) :
                   /\ Len(database[i].embeddings) = Cardinality(Succeeded(presenter))
                   /\ \A k \in Succeeded(presenter) :
                        database[i].embeddings[
                            Cardinality({ j \in Succeeded(presenter) : j <= k })]
                          = EmbeddingOfSample(presenter, k)

\* two presenters curated: one sample of the first times out and the other
\* succeeds, the only sample of the second cannot be copied
C25_Witness ==
  /\ build_pc = "done"
  /\ build_args.rack = RackFlaky
  /\ DOMAIN recordings_by_presenter = {"Zeb Soanes", "Corrie Corfield"}
  /\ Len(recordings_by_presenter["Zeb Soanes"]) = 2
  /\ recordings_by_presenter["Zeb Soanes"][1].file = "b.mp3"
  /\ database = <<Voiceprints("Zeb Soanes", <<<<1, 0>>>>)>>

(***************************************************************************)
(* Properties of validate_database                                         *)
(***************************************************************************)
Between == validation_stats.between_speaker_similarity

\* every presenter of the database has an embedding
AllHaveEmbeddings == \A k \in 1..Len(database) : database[k].embeddings # <<>>

PairName(i, j) == database[i].presenter \o " vs " \o database[j].presenter

\* C26: for a database of P presenters, all with embeddings, the
\* between-speaker report has exactly one entry per unordered pair of
\* presenters, P(P-1)/2 in all, each the similarity of the two presenters'
\* first embeddings; between_speaker_mean and between_speaker_std are present
\* iff there is at least one pair entry, which is iff P >= 2.
C26_OneEntryPerPair ==
  (Validated /\ AllHaveEmbeddings) =>
    /\ 2 * Len(Between) = Len(database) * (Len(database) - 1)
    /\ \A i, j \in 1..Len(database) :
         i < j =>
           /\ Cardinality({ k \in 1..Len(Between) : Between[k].pair = PairName(i, j) }) = 1
           /\ \A k \in 1..Len(Between) :
                Between[k].pair = PairName(i, j) =>
                  Between[k].similarity = cosine_similarity(database[i].embeddings[1],
                                                            database[j].embeddings[1])
    /\ ("between_speaker_mean" \in DOMAIN validation_stats) <=> (Len(Between) >= 1)
    /\ ("between_speaker_std" \in DOMAIN validation_stats) <=> (Len(Between) >= 1)
    /\ (Len(Between) >= 1) <=> (Len(database) >= 2)

\* three presenters, each with two embeddings that differ: three pairs
C26_Witness ==
  /\ Validated
  /\ Len(database) = 3
  /\ \A k \in 1..3 : /\ Len(database[k].embeddings) = 2
                     /\ database[k].embeddings[1] # database[k].embeddings[2]
  /\ Len(Between) = 3
  /\ Len(validation_stats.between_speaker_mean.mean_of) = 3

\* C28: the cap holds for every integer max_samples, 0 and negative values
\* included: every curated list has at most max(0, max_samples) entries, and
\* the curation leaves the label corpus it was given as it was.
C28_CapForEveryInteger ==
  [][(curated = NoDict /\ curated' # NoDict) =>
       /\ \A p \in DOMAIN curated' :
            Len(curated'[p]) <= Max(0, curate_args.max_samples)
       /\ curate_args' = curate_args]_vars

\* C29: the temporary segment file that detect_presenter created is removed
\* before the call returns, on every return path: on success, on the
\* transcription_error return and on every caught exception.
C29_TempFileRemoved ==
  pc = "returned" => tmp_path # "exists"

\* the value of a similarity validate_database reports, for embeddings of
\* whole length: dot / (sqrt(norms) + 1e-8), the 1e-8 left out
Value(similarity) ==
  IF similarity.norms = 0 THEN Zero
  ELSE <<similarity.dot, RootFrom(similarity.norms, 0)>>

InUnitInterval(x) == Geq(x, Zero) /\ Geq(One, x)

\* the similarities of the within-speaker entries
WithinSimilarities ==
  UNION { { validation_stats.within_speaker_similarity[p].of[k] :
              k \in 1..Len(validation_stats.within_speaker_similarity[p].of) } :
          p \in DOMAIN validation_stats.within_speaker_similarity }

\* C30: the similarity validate_database reports for a pair of embeddings is
\* the clamped cosine that speaker_recognition.cosine_similarity returns for
\* the pair: every within-speaker and between-speaker similarity lies in
\* [0,1], and a pair with a negative dot product is reported as 0.0.
C30_ValidatorUsesClampedCosine ==
  Validated =>
    /\ \A s \in WithinSimilarities : InUnitInterval(Value(s))
    /\ \A k \in 1..Len(Between) : InUnitInterval(Value(Between[k].similarity))
    /\ \A i, j \in 1..Len(database) :
         (i < j /\ database[i].embeddings # <<>> /\ database[j].embeddings # <<>>) =>
           \A k \in 1..Len(Between) :
             Between[k].pair = PairName(i, j) =>
               SameValue(Value(Between[k].similarity),
                         speaker_cosine_similarity(database[i].embeddings[1],
                                                   database[j].embeddings[1]))

====
